---- MODULE Spec2Model ----
(***************************************************************************)
(* WasmForge host runtime: module manager (acquisition, checksum, cache),  *)
(* tools/call dispatch with the guest-validated host capabilities, and the *)
(* stdio / TCP request loops; startup (Config::validate,                   *)
(* WasmForgeServer::new), the executor's module table and tool discovery.  *)
(*                                                                         *)
(* Strings the code inspects (commands, CSV lists) are sequences of        *)
(* one-character strings; byte strings are sequences of integers.          *)
(* Option<T> is a sequence of length 0 (None) or 1 (Some).                 *)
(***************************************************************************)
EXTENDS Integers, Sequences, FiniteSets, TLC

VARIABLES
    \* ---- module manager (module_manager.rs) and its environment
    config,          \* Config: [modules, ttl_hours], read once at startup
    overflow_checks, \* build profile: TRUE panics on integer overflow, FALSE wraps
    now,             \* SystemTime::now() in seconds since the epoch
    cache_wasm,      \* cache directory: id -> Option<bytes> of <id>.wasm
    cache_json,      \* cache directory: id -> state of <id>.json
    local_files,     \* filesystem outside the cache: path -> Option<bytes>
    loaded_modules,  \* ModuleManager.loaded_modules: name -> Option<ModuleMetadata>
    mm_pc,           \* where the manager's caller is: "load_all", "load_all_got",
                     \* "serving", "reload_got", "panicked"
    mm_next,         \* index of the next enabled module load_all_modules will load
    mm_attempted,    \* indices of the enabled modules load_all_modules has tried
    mm_succeeded,    \* indices of those whose load_module returned Ok
    mm_result,       \* Option<record>: a load_module / reload_module call that has
                     \* returned and that its caller has not handled yet
    \* ---- one request through handle_mcp_message (main.rs, wasm_executor.rs)
    d_alive,         \* FALSE once a panic has unwound through the handler
    d_request,       \* Option<MCPRequest>: the request handled, not yet answered
    d_trace,         \* guest calls and host I/O of that request, in order
    d_reply,         \* Option<MCPResponse>: the reply to that request
    d_env,           \* Option<record>: what the guest and the host I/O came to
                     \* while that request was handled
    \* ---- the request loops (main.rs: run_stdio_server, run_tcp_server,
    \*      handle_tcp_connection)
    s_mode,          \* "stdio" or "tcp"
    s_in,            \* connection -> lines sent by the client and not yet read
    s_pc,            \* connection -> "absent", "reading", "waiting", "handling",
                     \* "writing", "closed", "dead"
    s_cur,           \* connection -> Option<line>: the request line being served
    s_plan,          \* connection -> what is left of the handler's run
    s_lock,          \* Option<connection>: the owner of the Mutex<WasmForgeServer>
    s_log,           \* guest calls, host I/O and replies of all requests, in order
    \* ---- startup and the tables built by it (main.rs: main,
    \*      WasmForgeServer::new; config.rs: validate; tool_discovery.rs)
    st_pc,           \* "absent", "config" (read, not validated), "rejected"
                     \* (validate failed: fatal), "validated", "serving"
    st_config,       \* the Config read at startup: [modules]
    st_files,        \* filesystem: path -> Option<bytes>
    mgr_loaded,      \* ModuleManager.loaded_modules: HashMap name -> ModuleMetadata
    exec_modules,    \* WasmExecutor.modules: HashMap name -> LoadedModule
    tool_configs,    \* ToolDiscovery.tool_configs: module -> tool name -> ToolConfig
    discovered_tools, \* ToolDiscovery.discovered_tools: key -> DiscoveredTool
    exec_last,       \* Option<record>: the unload_module / reload_module call
                     \* that has just returned, and what it returned
    \* ---- one call through a capability with the guest of the repository
    \*      (test-module/src/lib.rs) as its validator
    x_call,          \* Option<record>: the call made and what it was given
    x_result         \* Option<record>: what the call did and returned

mmVars == <<config, overflow_checks, now, cache_wasm, cache_json, local_files,
            loaded_modules, mm_pc, mm_next, mm_attempted, mm_succeeded, mm_result>>

dispatchVars == <<d_alive, d_request, d_trace, d_reply, d_env>>

serverVars == <<s_mode, s_in, s_pc, s_cur, s_plan, s_lock, s_log>>

startVars == <<st_pc, st_config, st_files, mgr_loaded, exec_modules, tool_configs,
               discovered_tools, exec_last>>

guestVars == <<x_call, x_result>>

vars == <<mmVars, dispatchVars, serverVars, startVars, guestVars>>

\* Option<T>
None == <<>>
Some(v) == <<v>>

\* ------------------------------------------------------------------------
\* Bounds of the model
\* ------------------------------------------------------------------------

\* u64 arithmetic is carried out modulo this number (the width is scaled down).
U64Modulus == 16384

\* i32 arithmetic is carried out modulo this number (the width is scaled down).
I32Modulus == 256

\* i64 values lie within this number of consecutive integers around zero (the
\* width is scaled down).
I64Modulus == 65536

\* Number of client connections of the model.
MaxConns == 2

\* Largest ttl_hours a configuration of the model holds.
MaxTtlHours == 1

\* The system clock reads a whole number of hours, at most this many.
MaxClockHours == 1

\* ------------------------------------------------------------------------
\* Byte strings and checksums
\* ------------------------------------------------------------------------

WasmA == <<0, 97, 115, 109, 1, 0, 0, 0, 10>>
WasmB == <<0, 97, 115, 109, 1, 0, 0, 0, 11>>
BadMagic == <<1, 97, 115, 109, 1, 0, 0, 0, 10>>
BadVersion == <<0, 97, 115, 109, 2, 0, 0, 0, 10>>
TooShort == <<0, 97, 115, 109>>

Blobs == {WasmA, WasmB, BadMagic, BadVersion, TooShort}

\* Bodies a module url serves.
ServedBlobs == {WasmA, WasmB, BadMagic}

\* validate_wasm_module: at least 8 bytes, magic "\0asm", version 1.
validate_wasm_module(wasm_bytes) ==
    IF Len(wasm_bytes) < 8 THEN "too short"
    ELSE IF SubSeq(wasm_bytes, 1, 4) # <<0, 97, 115, 109>> THEN "missing magic bytes"
    ELSE IF SubSeq(wasm_bytes, 5, 8) # <<1, 0, 0, 0>> THEN "unsupported version"
    ELSE "ok"

\* SHA-256 is an injective digest of the bytes; format!("{:x}") renders it in
\* lowercase hex.  A configured checksum may be written in uppercase.
calculate_checksum(data) == [digest |-> data, uppercase |-> FALSE]

Md5Hex(url) == [md5 |-> url]

\* ------------------------------------------------------------------------
\* Configuration
\* ------------------------------------------------------------------------

LocalSource(path) == [type |-> "local", path |-> path]
HttpSource(url, checksum) == [type |-> "http", url |-> url, checksum |-> checksum]
RegistrySource(name) == [type |-> "registry", name |-> name]

\* ModuleConfig (version and description play no part and are left out).
ModuleConfigWith(name, source, enabled, tools, metadata) ==
    [name |-> name, source |-> source, enabled |-> enabled, tools |-> tools,
     metadata |-> metadata]

\* A module with neither a tools table nor metadata.
ModuleConfig(name, source, enabled) ==
    ModuleConfigWith(name, source, enabled, None, None)

\* Local paths: absolute, or relative (tried against CWD, then the config dir).
AbsPath == [absolute |-> TRUE, rel |-> "abs.wasm"]
RelPath == [absolute |-> FALSE, rel |-> "mod.wasm"]

\* Resolved places a local module can be read from.
FsPaths == {<<"root", "abs.wasm">>, <<"cwd", "mod.wasm">>, <<"cfgdir", "mod.wasm">>}

ModuleLists ==
    { << ModuleConfig("m1", HttpSource("u1", Some(calculate_checksum(WasmA))), TRUE),
         ModuleConfig("loc", LocalSource(RelPath), TRUE) >>,
      << ModuleConfig("reg", RegistrySource("r"), TRUE),
         ModuleConfig("off", LocalSource(AbsPath), FALSE),
         ModuleConfig("loc", LocalSource(AbsPath), TRUE),
         ModuleConfig("m1", HttpSource("u1", None), TRUE) >> }

\* Config::enabled_modules
RECURSIVE FilterEnabled(_)
FilterEnabled(mods) ==
    IF mods = <<>> THEN <<>>
    ELSE IF Head(mods).enabled THEN <<Head(mods)>> \o FilterEnabled(Tail(mods))
    ELSE FilterEnabled(Tail(mods))

enabled_modules(cfg) == FilterEnabled(cfg.modules)

\* Config::find_module: the first module of that name, enabled or not.
RECURSIVE FindFirst(_, _)
FindFirst(mods, name) ==
    IF mods = <<>> THEN None
    ELSE IF Head(mods).name = name THEN Some(Head(mods))
    ELSE FindFirst(Tail(mods), name)

find_module(cfg, name) == FindFirst(cfg.modules, name)

ModuleNames == {"m1", "loc", "reg", "off"}

\* ------------------------------------------------------------------------
\* Cache directory
\* ------------------------------------------------------------------------

\* load_http_module line 124: name + "_" + (checksum, or md5 of the url).
module_id(cfg) ==
    <<cfg.name,
      IF cfg.source.checksum # None THEN cfg.source.checksum[1]
      ELSE Md5Hex(cfg.source.url)>>

AllModuleConfigs == UNION { {l[i] : i \in 1..Len(l)} : l \in ModuleLists }

CacheIds == { module_id(c) : c \in {m \in AllModuleConfigs : m.source.type = "http"} }

CachedPath(id) == <<"cache", id>>

\* <id>.json: absent, unparseable, or a serialised ModuleMetadata.
JsonAbsent == [state |-> "absent", md |-> None]
JsonCorrupt == [state |-> "corrupt", md |-> None]
JsonOf(md) == [state |-> "ok", md |-> Some(md)]

\* load_cached_metadata: read_to_string then serde_json::from_str.
load_cached_metadata(json, id) ==
    IF json[id].state = "ok" THEN json[id].md ELSE None

\* The bytes at a wasm_path, None when no file is there.
FileAt(path, wasm, files) ==
    IF path[1] = "cache" THEN wasm[path[2]] ELSE files[path]


\* ------------------------------------------------------------------------
\* Module manager operations (module_manager.rs)
\* ------------------------------------------------------------------------

SecondsPerHour == 3600

\* Values the system clock may read.
TimePoints == {h * SecondsPerHour : h \in 0..MaxClockHours}

\* Rust u64 arithmetic: the debug profile panics on overflow, the release
\* profile wraps.
WrapU64(n) == n % U64Modulus

\* is_cache_valid: ttl_hours * 3600 is computed first, then now - cached_at.
is_cache_valid(metadata, t, ttl_hours, checks) ==
    IF checks /\ ttl_hours * SecondsPerHour >= U64Modulus THEN "panic"
    ELSE IF checks /\ t < metadata.cached_at THEN "panic"
    ELSE IF WrapU64(t - metadata.cached_at) < WrapU64(ttl_hours * SecondsPerHour)
         THEN "valid"
    ELSE "stale"

\* ModuleMetadata (version and description are copies of the config's and are
\* left out).
ModuleMetadata(id, cfg, checksum, size, t, path) ==
    [id |-> id, name |-> cfg.name, checksum |-> checksum, size_bytes |-> size,
     cached_at |-> t, source |-> cfg.source, wasm_path |-> path]

\* What one load_module call did: its result and the cache directory after it.
Outcome(status, md, err, gets, body, wasm, json) ==
    [status |-> status, md |-> md, err |-> err, gets |-> gets, body |-> body,
     wasm |-> wasm, json |-> json]

\* fs::write(path, data) that fails may have written nothing, or part of data.
WriteOutcomes == {"ok", "fail_untouched", "fail_partial"}

Truncated(data) == SubSeq(data, 1, Len(data) \div 2)

\* What a GET of a module url can yield.
HttpResponses ==
    {[kind |-> "transport_error", bytes |-> <<>>],
     [kind |-> "status_error", bytes |-> <<>>],
     [kind |-> "body_error", bytes |-> <<>>]}
    \cup {[kind |-> "ok", bytes |-> b] : b \in ServedBlobs}

\* load_local_module lines 76-88: the path the module is read from.
resolve_local_path(path, files) ==
    IF path.absolute THEN <<"root", path.rel>>
    ELSE IF files[<<"cwd", path.rel>>] # None THEN <<"cwd", path.rel>>
    ELSE <<"cfgdir", path.rel>>

\* A local load that keeps a copy of the module in the cache directory: what
\* the frame of load_local_module is measured against.
load_local_module_into_cache(cfg, files, wasm, json, t, uuid) ==
    LET wasm_path == resolve_local_path(cfg.source.path, files) IN
    IF files[wasm_path] = None
    THEN Outcome("err", None, "local module file not found", 0, None, wasm, json)
    ELSE
      LET wasm_bytes == files[wasm_path][1] IN
      IF validate_wasm_module(wasm_bytes) # "ok"
      THEN Outcome("err", None, validate_wasm_module(wasm_bytes), 0, None, wasm, json)
      ELSE Outcome("ok",
                   Some(ModuleMetadata(<<"uuid", uuid>>, cfg,
                                       calculate_checksum(wasm_bytes),
                                       Len(wasm_bytes), t, wasm_path)),
                   "", 0, None,
                   (<<cfg.name, "local">> :> Some(wasm_bytes)) @@ wasm, json)

load_local_module(cfg, files, wasm, json, t, uuid) ==
    LET wasm_path == resolve_local_path(cfg.source.path, files) IN
    IF files[wasm_path] = None
    THEN Outcome("err", None, "local module file not found", 0, None, wasm, json)
    ELSE
      LET wasm_bytes == files[wasm_path][1] IN
      IF validate_wasm_module(wasm_bytes) # "ok"
      THEN Outcome("err", None, validate_wasm_module(wasm_bytes), 0, None, wasm, json)
      ELSE Outcome("ok",
                   Some(ModuleMetadata(<<"uuid", uuid>>, cfg,
                                       calculate_checksum(wasm_bytes),
                                       Len(wasm_bytes), t, wasm_path)),
                   "", 0, None, wasm, json)

\* download_module without the comparison of lines 154-163: what the checksum
\* check is measured against.
download_module_unverified(cfg, wasm, json, t, resp, wasm_write, json_write) ==
    LET module_id_ == module_id(cfg)
        metadata == ModuleMetadata(module_id_, cfg, calculate_checksum(resp.bytes),
                                   Len(resp.bytes), t, CachedPath(module_id_))
    IN
    IF resp.kind # "ok" THEN Outcome("err", None, resp.kind, 1, None, wasm, json)
    ELSE IF validate_wasm_module(resp.bytes) # "ok"
    THEN Outcome("err", None, validate_wasm_module(resp.bytes), 1, Some(resp.bytes),
                 wasm, json)
    ELSE Outcome("ok", Some(metadata), "", 1, Some(resp.bytes),
                 [wasm EXCEPT ![module_id_] = Some(resp.bytes)],
                 [json EXCEPT ![module_id_] = JsonOf(metadata)])

\* load_http_module lines 136-186: the download, once the cache was not used.
download_module(cfg, wasm, json, t, resp, wasm_write, json_write) ==
    LET module_id_ == module_id(cfg)
        expected_checksum == cfg.source.checksum
        checksum == calculate_checksum(resp.bytes)
        metadata == ModuleMetadata(module_id_, cfg, checksum, Len(resp.bytes), t,
                                   CachedPath(module_id_))
        wasm_written == [wasm EXCEPT ![module_id_] = Some(resp.bytes)]
        wasm_partial == [wasm EXCEPT ![module_id_] = Some(Truncated(resp.bytes))]
        body == Some(resp.bytes)
    IN
    IF resp.kind # "ok" THEN Outcome("err", None, resp.kind, 1, None, wasm, json)
    ELSE IF expected_checksum # None /\ checksum # expected_checksum[1]
    THEN Outcome("err", None, "checksum mismatch", 1, body, wasm, json)
    ELSE IF validate_wasm_module(resp.bytes) # "ok"
    THEN Outcome("err", None, validate_wasm_module(resp.bytes), 1, body, wasm, json)
    ELSE IF wasm_write = "fail_untouched"
    THEN Outcome("err", None, "failed to cache module", 1, body, wasm, json)
    ELSE IF wasm_write = "fail_partial"
    THEN Outcome("err", None, "failed to cache module", 1, body, wasm_partial, json)
    ELSE IF json_write = "fail_untouched"
    THEN Outcome("err", None, "failed to write metadata", 1, body, wasm_written, json)
    ELSE IF json_write = "fail_partial"
    THEN Outcome("err", None, "failed to write metadata", 1, body, wasm_written,
                 [json EXCEPT ![module_id_] = JsonCorrupt])
    ELSE Outcome("ok", Some(metadata), "", 1, body, wasm_written,
                 [json EXCEPT ![module_id_] = JsonOf(metadata)])

\* load_http_module lines 124-134: the cached metadata is returned when it
\* parses, <id>.wasm exists and is_cache_valid; anything else downloads.
load_http_module(cfg, wasm, json, t, ttl_hours, checks, resp, wasm_write, json_write) ==
    LET module_id_ == module_id(cfg)
        cached == load_cached_metadata(json, module_id_)
        probe == IF cached # None /\ wasm[module_id_] # None
                 THEN is_cache_valid(cached[1], t, ttl_hours, checks)
                 ELSE "stale"
    IN
    IF probe = "panic" THEN Outcome("panic", None, "overflow", 0, None, wasm, json)
    ELSE IF probe = "valid" THEN Outcome("ok", cached, "", 0, None, wasm, json)
    ELSE download_module(cfg, wasm, json, t, resp, wasm_write, json_write)

load_registry_module(cfg, wasm, json) ==
    Outcome("err", None, "registry module loading not yet implemented", 0, None,
            wasm, json)

\* load_module: dispatch on the source.
load_module(cfg, files, wasm, json, t, ttl_hours, checks, env) ==
    IF cfg.source.type = "local"
    THEN load_local_module(cfg, files, wasm, json, t, env.uuid)
    ELSE IF cfg.source.type = "http"
    THEN load_http_module(cfg, wasm, json, t, ttl_hours, checks,
                          env.resp, env.wasm_write, env.json_write)
    ELSE load_registry_module(cfg, wasm, json)

UuidChoices == {1, 2}

LoadEnv(resp, wasm_write, json_write, uuid) ==
    [resp |-> resp, wasm_write |-> wasm_write, json_write |-> json_write,
     uuid |-> uuid]

NoResponse == [kind |-> "transport_error", bytes |-> <<>>]

\* Whether load_module(cfg) gets as far as the GET.
issues_get(cfg, wasm, json, t, ttl_hours, checks) ==
    /\ cfg.source.type = "http"
    /\ LET cached == load_cached_metadata(json, module_id(cfg)) IN
       \/ cached = None
       \/ wasm[module_id(cfg)] = None
       \/ is_cache_valid(cached[1], t, ttl_hours, checks) = "stale"

\* What the environment decides during one load_module call: the uuid drawn
\* for a local module; the response, and how the two writes end, for a download.
LoadEnvs(cfg, downloads) ==
    IF cfg.source.type = "local"
    THEN {LoadEnv(NoResponse, "ok", "ok", u) : u \in UuidChoices}
    ELSE IF ~downloads
    THEN {LoadEnv(NoResponse, "ok", "ok", 1)}
    ELSE {LoadEnv(r, "ok", "ok", 1) : r \in HttpResponses}
         \cup {LoadEnv(r, w, "ok", 1) :
                 r \in {x \in HttpResponses : x.kind = "ok"},
                 w \in WriteOutcomes \ {"ok"}}
         \cup {LoadEnv(r, "ok", w, 1) :
                 r \in {x \in HttpResponses : x.kind = "ok"},
                 w \in WriteOutcomes \ {"ok"}}

\* The record kept of a load_module call: what was asked and what came back.
LoadRecord(op, name, cfg, out) ==
    [op |-> op, name |-> name, cfg |-> cfg, status |-> out.status, md |-> out.md,
     err |-> out.err, gets |-> out.gets, body |-> out.body]


\* ------------------------------------------------------------------------
\* Strings (str::trim, str::split, str::split_whitespace)
\* ------------------------------------------------------------------------

Whitespace == {" ", "\t"}

RECURSIVE trim_start(_)
trim_start(s) ==
    IF s # <<>> /\ Head(s) \in Whitespace THEN trim_start(Tail(s)) ELSE s

RECURSIVE trim_end(_)
trim_end(s) ==
    IF s # <<>> /\ s[Len(s)] \in Whitespace
    THEN trim_end(SubSeq(s, 1, Len(s) - 1))
    ELSE s

trim(s) == trim_end(trim_start(s))

\* s.split(sep): the pieces between separators, empty pieces included.
RECURSIVE split(_, _)
split(s, sep) ==
    IF \A i \in 1..Len(s) : s[i] # sep THEN <<s>>
    ELSE LET i == CHOOSE k \in 1..Len(s) :
                      s[k] = sep /\ \A j \in 1..(k - 1) : s[j] # sep
         IN <<SubSeq(s, 1, i - 1)>> \o split(SubSeq(s, i + 1, Len(s)), sep)

\* s.split_whitespace(): the maximal runs of non-whitespace characters.
RECURSIVE split_whitespace(_)
split_whitespace(s) ==
    LET t == trim_start(s) IN
    IF t = <<>> THEN <<>>
    ELSE LET stops == {k \in 1..Len(t) : t[k] \in Whitespace}
             n == IF stops = {} THEN Len(t) + 1
                  ELSE CHOOSE k \in stops : \A j \in stops : k <= j
         IN <<SubSeq(t, 1, n - 1)>> \o split_whitespace(SubSeq(t, n, Len(t)))

NonEmptyString(x) == x # <<>>

\* ------------------------------------------------------------------------
\* Shell allow-list (main.rs, handle_tool_call, prepare_shell_exec branch)
\* ------------------------------------------------------------------------

Echo == <<"e", "c", "h", "o">>
Cat == <<"c", "a", "t">>
Ls == <<"l", "s">>
Wc == <<"w", "c">>
Uname == <<"u", "n", "a", "m", "e">>
Rm == <<"r", "m">>

\* main.rs lines 216-222
DefaultAllowedCommands == <<Echo, Cat, Ls, Wc, Uname>>

ToolSecurityConfig(allowed_commands) == [allowed_commands |-> allowed_commands]

ToolConfig(name, function_name, security) ==
    [name |-> name, function_name |-> function_name, security |-> security]

\* tools.iter().find(|t| t.function_name == function_name)
RECURSIVE find_tool_config(_, _)
find_tool_config(tools, function_name) ==
    IF tools = <<>> THEN None
    ELSE IF Head(tools).function_name = function_name THEN Some(Head(tools))
    ELSE find_tool_config(Tail(tools), function_name)

\* csv.split(',').map(trim).filter(non-empty), main.rs line 239
parse_allowed_commands_csv(csv) ==
    LET pieces == split(csv, ",")
        trimmed == [i \in 1..Len(pieces) |-> trim(pieces[i])]
    IN SelectSeq(trimmed, NonEmptyString)

\* main.rs lines 224-233: the per-tool list replaces the defaults when non-empty.
allowed_after_tool_security(module_config, allowed) ==
    LET tool_cfg == IF module_config.tools = None THEN None
                    ELSE find_tool_config(module_config.tools[1], "prepare_shell_exec")
    IN
    IF /\ tool_cfg # None
       /\ tool_cfg[1].security # None
       /\ tool_cfg[1].security[1].allowed_commands # None
       /\ tool_cfg[1].security[1].allowed_commands[1] # <<>>
    THEN tool_cfg[1].security[1].allowed_commands[1]
    ELSE allowed

\* main.rs lines 236-242: the parsed CSV replaces whatever is there when non-empty.
allowed_after_metadata_csv(module_config, allowed) ==
    IF /\ module_config.metadata # None
       /\ module_config.metadata[1].allowed_commands_csv # None
       /\ parse_allowed_commands_csv(module_config.metadata[1].allowed_commands_csv[1])
            # <<>>
    THEN parse_allowed_commands_csv(module_config.metadata[1].allowed_commands_csv[1])
    ELSE allowed

\* main.rs lines 214-243: defaults, then the two `if` blocks one after the other.
resolve_allowed_commands(module_config_opt) ==
    IF module_config_opt = None THEN DefaultAllowedCommands
    ELSE allowed_after_metadata_csv(
             module_config_opt[1],
             allowed_after_tool_security(module_config_opt[1], DefaultAllowedCommands))


\* ------------------------------------------------------------------------
\* Guest calls and host capabilities (wasm_executor.rs)
\* ------------------------------------------------------------------------

\* Result<T>, and a panic that unwinds through the caller.
Ok(v) == [kind |-> "ok", value |-> v]
Err(e) == [kind |-> "err", error |-> e]
Panicked == [kind |-> "panic"]

\* A text the code only measures or cuts: its length in bytes, and whether the
\* index the code cuts it at falls on a character boundary.
Text(len, cut_on_boundary) == [len |-> len, cut_on_boundary |-> cut_on_boundary]

\* What the handler did, in order: calls into the guest and host I/O.
GuestCall(module_name, function_name, input, ret) ==
    [kind |-> "guest", module |-> module_name, function |-> function_name,
     input |-> input, ret |-> ret]
HttpGet(url) == [kind |-> "http_get", url |-> url]
FileRead(path) == [kind |-> "file_read", path |-> path]
FileWrite(path, content) == [kind |-> "file_write", path |-> path, content |-> content]
Spawn(program, args) == [kind |-> "spawn", program |-> program, args |-> args]
Kill(program) == [kind |-> "kill", program |-> program]
\* The handler has awaited the child for this many seconds.
Waited(program, secs) == [kind |-> "waited", program |-> program, secs |-> secs]

Did(result, events) == [result |-> result, events |-> events]

\* What a call into the guest comes to: a returned i32, a trap, or no call at
\* all because the module is not in the executor.
GuestReturn(v) == [kind |-> "ret", value |-> v]
GuestTrap == [kind |-> "trap", value |-> 0]
GuestNotLoaded == [kind |-> "not_loaded", value |-> 0]
\* No call either: the instance exports no memory, the input does not fit in
\* it, or the function is not an export of type (i32, i32) -> i32.
GuestNoMemory == [kind |-> "no_memory", value |-> 0]
GuestWriteFailed == [kind |-> "write_failed", value |-> 0]
GuestNoFunction == [kind |-> "no_function", value |-> 0]

\* data_ptr, call_function_ptr_len_to_i32 line 130
DataPtr == 1024

\* A store's instance: Option<size in bytes> of the export "memory", and the
\* names of its exports of type (i32, i32) -> i32.
Instance(memory, functions) == [memory |-> memory, functions |-> functions]

\* A write that a memory would make room for: what the bounds check of
\* Memory::write is measured against.
memory_write_growing(size, offset, len) == TRUE

\* Memory::write: the range written must lie within the memory.
memory_write(size, offset, len) == offset + len <= size

\* call_function_ptr_len_to_i32 up to the call, lines 121-138: what stops it
\* before the guest runs, else what the guest does.
guest_call_outcome(instance, function_name, data_len, behaviour) ==
    IF instance = None THEN GuestNotLoaded
    ELSE IF instance[1].memory = None THEN GuestNoMemory
    ELSE IF ~memory_write(instance[1].memory[1], DataPtr, data_len)
    THEN GuestWriteFailed
    ELSE IF function_name \notin instance[1].functions THEN GuestNoFunction
    ELSE behaviour

call_function_ptr_len_to_i32(module_name, function_name, data, g) ==
    IF g.kind = "not_loaded" THEN Did(Err("module not loaded"), <<>>)
    ELSE IF g.kind = "no_memory" THEN Did(Err("no memory export"), <<>>)
    ELSE IF g.kind = "write_failed" THEN Did(Err("failed to write data"), <<>>)
    ELSE IF g.kind = "no_function" THEN Did(Err("function not found"), <<>>)
    ELSE IF g.kind = "trap"
    THEN Did(Err("failed to call function"),
             <<GuestCall(module_name, function_name, data, None)>>)
    ELSE Did(Ok(g.value),
             <<GuestCall(module_name, function_name, data, Some(g.value))>>)

\* 200 in fetch_url_with_validation, line 209
HttpStatusOk == 200

\* A legacy fetch that returns the body as soon as it has been received: what
\* the final process_response step is measured against.
fetch_url_without_processing(module_name, url, g, net, g2) ==
    LET v == call_function_ptr_len_to_i32(module_name, "validate_url", url, g) IN
    IF v.result.kind # "ok" THEN v
    ELSE IF v.result.value # 1
    THEN Did(Err("invalid URL according to WASM validation"), v.events)
    ELSE
      LET sent == v.events \o <<HttpGet(url)>> IN
      IF net.kind \in {"transport_error", "body_error"}
      THEN Did(Err(net.kind), sent)
      ELSE Did(Ok(net.body), sent)

fetch_url_with_validation(module_name, url, g, net, g2) ==
    LET v == call_function_ptr_len_to_i32(module_name, "validate_url", url, g) IN
    IF v.result.kind # "ok" THEN v
    ELSE IF v.result.value # 1
    THEN Did(Err("invalid URL according to WASM validation"), v.events)
    ELSE
      LET sent == v.events \o <<HttpGet(url)>> IN
      IF net.kind \in {"transport_error", "body_error"}
      THEN Did(Err(net.kind), sent)
      ELSE
        LET p == call_function_ptr_len_to_i32(module_name, "process_response",
                                              net.body, g2)
        IN
        IF p.result.kind # "ok" THEN Did(p.result, sent \o p.events)
        ELSE IF p.result.value = HttpStatusOk THEN Did(Ok(net.body), sent \o p.events)
        ELSE Did(Err("WASM processing failed"), sent \o p.events)

http_get_with_validation(module_name, url, g, net) ==
    LET v == call_function_ptr_len_to_i32(module_name, "prepare_http_get", url, g) IN
    IF v.result.kind # "ok" THEN v
    ELSE IF v.result.value # 1 THEN Did(Err("URL rejected by WASM validation"), v.events)
    ELSE
      LET sent == v.events \o <<HttpGet(url)>> IN
      IF net.kind \in {"transport_error", "status_error", "body_error"}
      THEN Did(Err(net.kind), sent)
      ELSE Did(Ok(net.body), sent)

\* 1024 * 1024, read_file_with_validation line 274
ReadLimit == 1048576

\* read_file_with_validation that refuses a content of exactly the limit: what
\* the boundary of the size cap is measured against.
read_file_below_limit(module_name, file_path, g, file) ==
    LET v == call_function_ptr_len_to_i32(module_name, "prepare_file_read",
                                          file_path, g)
    IN
    IF v.result.kind # "ok" THEN v
    ELSE IF v.result.value # 1
    THEN Did(Err("file path rejected by WASM validation"), v.events)
    ELSE
      LET done == v.events \o <<FileRead(file_path)>> IN
      IF file.kind = "error" THEN Did(Err("failed to read file"), done)
      ELSE IF file.content.len >= ReadLimit THEN Did(Err("file too large"), done)
      ELSE Did(Ok(file.content), done)

read_file_with_validation(module_name, file_path, g, file) ==
    LET v == call_function_ptr_len_to_i32(module_name, "prepare_file_read",
                                          file_path, g)
    IN
    IF v.result.kind # "ok" THEN v
    ELSE IF v.result.value # 1
    THEN Did(Err("file path rejected by WASM validation"), v.events)
    ELSE
      LET done == v.events \o <<FileRead(file_path)>> IN
      IF file.kind = "error" THEN Did(Err("failed to read file"), done)
      ELSE IF file.content.len > ReadLimit THEN Did(Err("file too large"), done)
      ELSE Did(Ok(file.content), done)

\* 10 * 1024 * 1024, write_file_with_validation line 300
WriteLimit == 10485760

\* write_file_with_validation without the check of the content's size: what
\* the write cap is measured against.
write_file_without_size_check(module_name, file_path, content, g, file) ==
    LET v == call_function_ptr_len_to_i32(module_name, "prepare_file_write",
                                          file_path, g)
    IN
    IF v.result.kind # "ok" THEN v
    ELSE IF v.result.value # 1
    THEN Did(Err("file path rejected by WASM validation for writing"), v.events)
    ELSE
      LET done == v.events \o <<FileWrite(file_path, content)>> IN
      IF file.kind = "error" THEN Did(Err("failed to write file"), done)
      ELSE Did(Ok(content.len), done)

\* write_file_with_validation that goes on whatever the guest returned: what
\* the check of the guest's verdict is measured against.
write_file_whatever_guest_says(module_name, file_path, content, g, file) ==
    LET v == call_function_ptr_len_to_i32(module_name, "prepare_file_write",
                                          file_path, g)
        done == v.events \o <<FileWrite(file_path, content)>>
    IN
    IF v.result.kind # "ok" THEN v
    ELSE IF content.len > WriteLimit THEN Did(Err("content too large"), v.events)
    ELSE IF file.kind = "error" THEN Did(Err("failed to write file"), done)
    ELSE Did(Ok(content.len), done)

write_file_with_validation(module_name, file_path, content, g, file) ==
    LET v == call_function_ptr_len_to_i32(module_name, "prepare_file_write",
                                          file_path, g)
    IN
    IF v.result.kind # "ok" THEN v
    ELSE IF v.result.value # 1
    THEN Did(Err("file path rejected by WASM validation for writing"), v.events)
    ELSE IF content.len > WriteLimit THEN Did(Err("content too large"), v.events)
    ELSE
      LET done == v.events \o <<FileWrite(file_path, content)>> IN
      IF file.kind = "error" THEN Did(Err("failed to write file"), done)
      ELSE Did(Ok(content.len), done)

\* max_len, execute_shell_with_validation line 394
MaxOutputLen == 4096

\* String::truncate(max_len) on a text longer than max_len: panics when
\* max_len is not on a character boundary.
truncate_output(text) ==
    IF text.len > MaxOutputLen
    THEN IF text.cut_on_boundary
         THEN Ok([text EXCEPT !.len = MaxOutputLen, !.cut_on_boundary = TRUE])
         ELSE Panicked
    ELSE Ok(text)

\* A captured stream: its length in bytes, whether byte max_len of its lossy
\* decoding is a character boundary, and how many of its bytes are not valid
\* UTF-8 (each a sequence of its own).
Bytes(len, cut_on_boundary, invalid) ==
    [len |-> len, cut_on_boundary |-> cut_on_boundary, invalid |-> invalid]

\* String::from_utf8_lossy: every invalid sequence becomes U+FFFD, three bytes.
from_utf8_lossy(bytes) ==
    [len |-> bytes.len + 2 * bytes.invalid,
     cut_on_boundary |-> bytes.cut_on_boundary,
     replaced |-> bytes.invalid]

\* Duration::from_secs(10), execute_shell_with_validation line 385
ShellTimeoutSecs == 10

\* wait_with_output that gives up only on a child that never exits: what the
\* ten-second bound is measured against.
wait_past_deadline(proc) ==
    IF proc.kind = "hangs"
    THEN [elapsed |-> TRUE, waited |-> ShellTimeoutSecs]
    ELSE [elapsed |-> FALSE, waited |-> proc.exit_after]

\* timeout(Duration::from_secs(10), child.wait_with_output())
wait_with_timeout(proc) ==
    IF proc.kind = "hangs" \/ proc.exit_after > ShellTimeoutSecs
    THEN [elapsed |-> TRUE, waited |-> ShellTimeoutSecs]
    ELSE [elapsed |-> FALSE, waited |-> proc.exit_after]

execute_shell_with_validation(module_name, command, allowed_commands, g, proc) ==
    LET v == call_function_ptr_len_to_i32(module_name, "prepare_shell_exec",
                                          command, g)
        tokens == split_whitespace(command)
    IN
    IF v.result.kind # "ok" THEN v
    ELSE IF v.result.value # 1 THEN Did(Err("command rejected by WASM validation"), v.events)
    ELSE IF tokens = <<>> THEN Did(Err("empty command"), v.events)
    ELSE IF \A i \in 1..Len(allowed_commands) : allowed_commands[i] # tokens[1]
    THEN Did(Err("command is not allowed"), v.events)
    ELSE
      LET spawned == v.events \o <<Spawn(tokens[1], Tail(tokens))>> IN
      IF proc.kind = "spawn_error" THEN Did(Err("failed to spawn command"), spawned)
      ELSE IF proc.kind = "wait_error"
      THEN Did(Err("failed to wait for command output"), spawned)
      ELSE
        LET w == wait_with_timeout(proc)
            awaited == spawned \o <<Waited(tokens[1], w.waited)>>
            stdout_text == truncate_output(from_utf8_lossy(proc.stdout))
            stderr_text == truncate_output(from_utf8_lossy(proc.stderr))
        IN
        \* the child is dropped with the future: kill_on_drop(true)
        IF w.elapsed
        THEN Did(Err("command timed out"), awaited \o <<Kill(tokens[1])>>)
        ELSE IF stdout_text.kind = "panic" THEN Did(Panicked, awaited)
        ELSE IF stderr_text.kind = "panic" THEN Did(Panicked, awaited)
        ELSE Did(Ok([exit_code |-> proc.exit_code,
                     stdout |-> stdout_text.value,
                     stderr |-> stderr_text.value]),
                 awaited)

\* call_function_i32_i32_to_i32 / call_function_no_params_to_i32: the same
\* lookup, with the arguments passed by value.
call_function_direct(module_name, function_name, args, g) ==
    IF g.kind = "not_loaded" THEN Did(Err("module not loaded"), <<>>)
    ELSE IF g.kind = "no_function" THEN Did(Err("function not found"), <<>>)
    ELSE IF g.kind = "trap"
    THEN Did(Err("failed to call function"),
             <<GuestCall(module_name, function_name, args, None)>>)
    ELSE Did(Ok(g.value),
             <<GuestCall(module_name, function_name, args, Some(g.value))>>)

\* ------------------------------------------------------------------------
\* Dispatch (main.rs: handle_mcp_message, handle_tool_call)
\* ------------------------------------------------------------------------

\* JSON values of the arguments object.
StrVal(chars) == [type |-> "string", chars |-> chars, len |-> Len(chars)]
LongStrVal(len) == [type |-> "string", chars |-> <<>>, len |-> len]
IntVal(n) == [type |-> "number", n |-> n, integer |-> TRUE]
\* A number written with a fraction or an exponent; n is its integer part.
FloatVal(n) == [type |-> "number", n |-> n, integer |-> FALSE]

\* arguments.get(key).and_then(|v| v.as_str())
get_str(arguments, key) ==
    IF key \in DOMAIN arguments /\ arguments[key].type = "string"
    THEN Some(arguments[key]) ELSE None

\* Value::as_i64: an integer that an i64 can hold; None for any other number.
as_i64(v) ==
    IF /\ v.integer
       /\ -(I64Modulus \div 2) <= v.n
       /\ v.n <= (I64Modulus - 1) \div 2
    THEN Some(v.n) ELSE None

\* arguments.get(key).and_then(|v| v.as_i64())
get_i64(arguments, key) ==
    IF key \in DOMAIN arguments /\ arguments[key].type = "number"
    THEN as_i64(arguments[key]) ELSE None

\* A conversion that clamps to the nearest i32: what `as i32` is measured
\* against.
as_i32_saturating(n) ==
    IF n < -(I32Modulus \div 2) THEN -(I32Modulus \div 2)
    ELSE IF n > (I32Modulus - 1) \div 2 THEN (I32Modulus - 1) \div 2
    ELSE n

\* `as i32`: reduction to the two's complement range.
as_i32(n) == ((n + I32Modulus \div 2) % I32Modulus) - I32Modulus \div 2

DiscoveredTool(key, name, module_name, function_name, pattern) ==
    [key |-> key, name |-> name, module_name |-> module_name,
     function_name |-> function_name, pattern |-> pattern]

\* The discovery table once test-module is loaded (tool_discovery.rs lines
\* 55-77 and 221-226).
DiscoveredTools ==
    { DiscoveredTool("fetch", "fetch", "test-module", "fetch", "ptr_len_to_i32"),
      DiscoveredTool("test-module::add", "add", "test-module", "add",
                     "i32_i32_to_i32"),
      DiscoveredTool("test-module::validate_url", "validate_url", "test-module",
                     "validate_url", "ptr_len_to_i32"),
      DiscoveredTool("test-module::process_response", "process_response",
                     "test-module", "process_response", "ptr_len_to_i32"),
      DiscoveredTool("test-module::prepare_http_get", "prepare_http_get",
                     "test-module", "prepare_http_get", "ptr_len_to_i32"),
      DiscoveredTool("test-module::prepare_file_read", "prepare_file_read",
                     "test-module", "prepare_file_read", "ptr_len_to_i32"),
      DiscoveredTool("test-module::prepare_file_write", "prepare_file_write",
                     "test-module", "prepare_file_write", "ptr_len_to_i32"),
      DiscoveredTool("test-module::prepare_shell_exec", "prepare_shell_exec",
                     "test-module", "prepare_shell_exec", "ptr_len_to_i32"),
      DiscoveredTool("test-module::prepare_recommend_mcps", "prepare_recommend_mcps",
                     "test-module", "prepare_recommend_mcps", "ptr_len_to_i32"),
      DiscoveredTool("clock::version", "clock_version", "clock", "version",
                     "no_params_to_i32") }

\* ToolDiscovery::find_tool_by_name: the exact key first, then the public name.
find_tool_by_name(name) ==
    IF \E t \in DiscoveredTools : t.key = name
    THEN Some(CHOOSE t \in DiscoveredTools : t.key = name)
    ELSE IF \E t \in DiscoveredTools : t.name = name
    THEN Some(CHOOSE t \in DiscoveredTools : t.name = name)
    ELSE None

\* 500 in the content preview, main.rs lines 167 and 256
PreviewLen == 500

\* &content[..500] on a longer content panics off a character boundary.
content_preview(what, content, events) ==
    IF content.len > PreviewLen /\ ~content.cut_on_boundary THEN Did(Panicked, events)
    ELSE Did(Ok([what |-> what, content |-> content]), events)

MCPRequest(id, method, params) == [id |-> id, method |-> method, params |-> params]

MCPResponse(id, result, error) == [id |-> id, result |-> result, error |-> error]

\* A ptr_len_to_i32 arm that calls every tool on its argument "data": what the
\* selection by function name and tool name is measured against.
handle_ptr_len_tool_on_data(tool, arguments, cfg, env) ==
    IF get_str(arguments, "data") = None
    THEN Did(Err("missing or invalid parameter 'data'"), <<>>)
    ELSE call_function_ptr_len_to_i32(tool.module_name, tool.function_name,
                                      get_str(arguments, "data")[1].chars, env.g)

\* The ptr_len_to_i32 arm of handle_tool_call, main.rs lines 147-358.
handle_ptr_len_tool(tool, arguments, cfg, env) ==
    LET url == get_str(arguments, "url")
        path == get_str(arguments, "path")
        content == get_str(arguments, "content")
        cmd == get_str(arguments, "command")
        task == get_str(arguments, "task")
        data == get_str(arguments, "data")
    IN
    IF tool.function_name = "validate_url"
    THEN IF url = None THEN Did(Err("missing or invalid parameter 'url'"), <<>>)
         ELSE call_function_ptr_len_to_i32(tool.module_name, tool.function_name,
                                           url[1].chars, env.g)
    ELSE IF tool.function_name = "prepare_http_get"
    THEN IF url = None THEN Did(Err("missing URL parameter"), <<>>)
         ELSE LET r == http_get_with_validation(tool.module_name, url[1].chars,
                                                env.g, env.net)
              IN IF r.result.kind # "ok" THEN r
                 ELSE content_preview("http get", r.result.value, r.events)
    ELSE IF tool.function_name = "prepare_file_read"
    THEN IF path = None THEN Did(Err("missing path parameter"), <<>>)
         ELSE read_file_with_validation(tool.module_name, path[1].chars, env.g,
                                        env.file)
    ELSE IF tool.function_name = "prepare_file_write"
    THEN IF path = None THEN Did(Err("missing path parameter"), <<>>)
         ELSE IF content = None THEN Did(Err("missing content parameter"), <<>>)
         ELSE write_file_with_validation(tool.module_name, path[1].chars, content[1],
                                         env.g, env.file)
    ELSE IF tool.function_name = "prepare_shell_exec"
    THEN IF cmd = None THEN Did(Err("missing command parameter"), <<>>)
         ELSE execute_shell_with_validation(
                  tool.module_name, cmd[1].chars,
                  resolve_allowed_commands(find_module(cfg, tool.module_name)),
                  env.g, env.proc)
    ELSE IF tool.name = "fetch"
    THEN IF url = None THEN Did(Err("missing URL parameter"), <<>>)
         ELSE LET r == fetch_url_with_validation(tool.module_name, url[1].chars,
                                                 env.g, env.net, env.g2)
              IN IF r.result.kind # "ok" THEN r
                 ELSE content_preview("fetch", r.result.value, r.events)
    ELSE IF tool.function_name = "prepare_recommend_mcps"
    THEN IF task = None THEN Did(Err("missing task parameter"), <<>>)
         ELSE LET v == call_function_ptr_len_to_i32(tool.module_name,
                                                    tool.function_name,
                                                    task[1].chars, env.g)
              IN IF v.result.kind # "ok" THEN v
                 ELSE IF v.result.value # 1
                 THEN Did(Err("task rejected by WASM validation"), v.events)
                 ELSE Did(Ok([what |-> "recommendations"]), v.events)
    ELSE IF data = None THEN Did(Err("missing or invalid parameter 'data'"), <<>>)
    ELSE call_function_ptr_len_to_i32(tool.module_name, tool.function_name,
                                      data[1].chars, env.g)

\* handle_tool_call: the result text on Ok, the error on Err.
handle_tool_call(request, cfg, env) ==
    IF request.params = None THEN Did(Err("missing parameters"), <<>>)
    ELSE IF "name" \notin DOMAIN request.params[1]
    THEN Did(Err("missing tool name"), <<>>)
    ELSE IF "arguments" \notin DOMAIN request.params[1]
    THEN Did(Err("missing arguments"), <<>>)
    ELSE IF find_tool_by_name(request.params[1].name) = None
    THEN Did(Err("unknown tool"), <<>>)
    ELSE
      LET tool == find_tool_by_name(request.params[1].name)[1]
          arguments == request.params[1].arguments
      IN
      IF tool.pattern = "i32_i32_to_i32"
      THEN IF get_i64(arguments, "a") = None
           THEN Did(Err("missing or invalid parameter 'a'"), <<>>)
           ELSE IF get_i64(arguments, "b") = None
           THEN Did(Err("missing or invalid parameter 'b'"), <<>>)
           ELSE call_function_direct(tool.module_name, tool.function_name,
                                     <<as_i32(get_i64(arguments, "a")[1]),
                                       as_i32(get_i64(arguments, "b")[1])>>,
                                     env.g)
      ELSE IF tool.pattern = "ptr_len_to_i32"
      THEN handle_ptr_len_tool(tool, arguments, cfg, env)
      ELSE IF tool.pattern = "no_params_to_i32"
      THEN call_function_direct(tool.module_name, tool.function_name, <<>>, env.g)
      ELSE Did(Err("unsupported function pattern"), <<>>)

\* handle_mcp_message: the reply, or the panic that unwinds through it.
handle_mcp_message(request, cfg, env) ==
    IF request.method = "initialize"
    THEN Did(Ok(MCPResponse(request.id, Some([what |-> "serverInfo"]), None)), <<>>)
    ELSE IF request.method = "tools/list"
    THEN Did(Ok(MCPResponse(request.id, Some([what |-> "tools"]), None)), <<>>)
    ELSE IF request.method = "tools/call"
    THEN LET r == handle_tool_call(request, cfg, env) IN
         IF r.result.kind = "panic" THEN r
         ELSE IF r.result.kind = "ok"
         THEN Did(Ok(MCPResponse(request.id,
                                 Some([what |-> "content", text |-> r.result.value]),
                                 None)),
                  r.events)
         ELSE Did(Ok(MCPResponse(request.id, None,
                                 Some([code |-> -32000, message |-> r.result.error]))),
                  r.events)
    ELSE Did(Ok(MCPResponse(request.id, None,
                            Some([code |-> -32601, message |-> "method not found"]))),
             <<>>)

\* HashMap::new()
EmptyMap == <<>>

\* The process has not been started from a configuration file.
StartQuiescent ==
    /\ st_pc = "absent"
    /\ st_config = [modules |-> <<>>]
    /\ st_files = EmptyMap
    /\ mgr_loaded = EmptyMap
    /\ exec_modules = EmptyMap
    /\ tool_configs = EmptyMap
    /\ discovered_tools = EmptyMap
    /\ exec_last = None

\* ------------------------------------------------------------------------
\* Module manager: state machine
\* ------------------------------------------------------------------------

Conns == 1..MaxConns

\* The request loops have not started.
ServerQuiescent ==
    /\ s_mode = "stdio"
    /\ s_in = [c \in Conns |-> <<>>]
    /\ s_pc = [c \in Conns |-> "absent"]
    /\ s_cur = [c \in Conns |-> None]
    /\ s_plan = [c \in Conns |-> None]
    /\ s_lock = None
    /\ s_log = <<>>

\* No call is in progress.
GuestQuiescent ==
    /\ x_call = None
    /\ x_result = None

\* No request has been handled.
DispatchQuiescent ==
    /\ d_alive = TRUE
    /\ d_request = None
    /\ d_trace = <<>>
    /\ d_reply = None
    /\ d_env = None

\* Local files the configuration's paths may or may not resolve to.
LocalFileChoices ==
    { [p \in FsPaths |-> None],
      [p \in FsPaths |-> IF p[1] = "cfgdir" THEN None ELSE Some(WasmA)],
      [p \in FsPaths |-> IF p[1] = "cfgdir" THEN Some(WasmB)
                         ELSE IF p[1] = "root" THEN Some(TooShort) ELSE None] }

\* ModuleManager::new on an empty cache directory.
InitManager ==
    /\ config \in [modules : ModuleLists, ttl_hours : 0..MaxTtlHours]
    /\ overflow_checks \in BOOLEAN
    /\ now \in TimePoints
    /\ cache_wasm = [id \in CacheIds |-> None]
    /\ cache_json = [id \in CacheIds |-> JsonAbsent]
    /\ local_files \in LocalFileChoices
    /\ loaded_modules = [n \in ModuleNames |-> None]
    /\ mm_pc = "load_all"
    /\ mm_next = 1
    /\ mm_attempted = {}
    /\ mm_succeeded = {}
    /\ mm_result = None
    /\ DispatchQuiescent
    /\ ServerQuiescent
    /\ StartQuiescent
    /\ GuestQuiescent

\* A load_module(cfg) call made by `op` runs to its end.
CallLoadModule(op, name, cfg) ==
    \E env \in LoadEnvs(cfg, issues_get(cfg, cache_wasm, cache_json, now,
                                        config.ttl_hours, overflow_checks)) :
      LET out == load_module(cfg, local_files, cache_wasm, cache_json,
                             now, config.ttl_hours, overflow_checks, env)
      IN
      /\ cache_wasm' = out.wasm
      /\ cache_json' = out.json
      /\ mm_result' = Some(LoadRecord(op, name, Some(cfg), out))
      /\ mm_pc' = IF out.status = "panic" THEN "panicked"
                  ELSE IF op = "load_all" THEN "load_all_got" ELSE "reload_got"

\* load_all_modules, loop body, first half: load_module on the next enabled
\* module.
LoadAllCall ==
    /\ mm_pc = "load_all"
    /\ mm_next <= Len(enabled_modules(config))
    /\ CallLoadModule("load_all", enabled_modules(config)[mm_next].name,
                      enabled_modules(config)[mm_next])
    /\ mm_attempted' = mm_attempted \cup {mm_next}
    /\ UNCHANGED <<config, overflow_checks, now, local_files, loaded_modules,
                   mm_next, mm_succeeded>>
    /\ UNCHANGED <<dispatchVars, serverVars, startVars, guestVars>>

\* load_all_modules, loop body, second half: insert on Ok, log on Err, go on.
LoadAllGot ==
    /\ mm_pc = "load_all_got"
    /\ loaded_modules' =
         IF mm_result[1].status = "ok"
         THEN [loaded_modules EXCEPT ![mm_result[1].md[1].name] = mm_result[1].md]
         ELSE loaded_modules
    /\ mm_succeeded' =
         IF mm_result[1].status = "ok" THEN mm_succeeded \cup {mm_next}
         ELSE mm_succeeded
    /\ mm_next' = mm_next + 1
    /\ mm_result' = None
    /\ mm_pc' = "load_all"
    /\ UNCHANGED <<config, overflow_checks, now, cache_wasm, cache_json, local_files,
                   mm_attempted>>
    /\ UNCHANGED <<dispatchVars, serverVars, startVars, guestVars>>

\* load_all_modules returns Ok(()) once the loop is over.
LoadAllReturn ==
    /\ mm_pc = "load_all"
    /\ mm_next > Len(enabled_modules(config))
    /\ mm_pc' = "serving"
    /\ UNCHANGED <<config, overflow_checks, now, cache_wasm, cache_json, local_files,
                   loaded_modules, mm_next, mm_attempted, mm_succeeded, mm_result>>
    /\ UNCHANGED <<dispatchVars, serverVars, startVars, guestVars>>

\* reload_module(name), first half: find_module, then load_module.
ReloadCall ==
    /\ mm_pc = "serving"
    /\ \E name \in ModuleNames :
         LET found == find_module(config, name) IN
         IF found = None
         THEN /\ mm_result' = Some(LoadRecord("reload", name, None,
                    Outcome("err", None, "not found in configuration", 0, None,
                            cache_wasm, cache_json)))
              /\ mm_pc' = "reload_got"
              /\ UNCHANGED <<cache_wasm, cache_json>>
         ELSE CallLoadModule("reload", name, found[1])
    /\ UNCHANGED <<config, overflow_checks, now, local_files, loaded_modules,
                   mm_next, mm_attempted, mm_succeeded>>
    /\ UNCHANGED <<dispatchVars, serverVars, startVars, guestVars>>

\* A reload that forgets the module it failed to load: what the match on the
\* result of load_module is measured against.
reload_forgetting_on_error(loaded, r) ==
    IF r.status = "ok" THEN [loaded EXCEPT ![r.md[1].name] = r.md]
    ELSE [loaded EXCEPT ![r.name] = None]

\* reload_module, the match on the result of load_module, lines 273-283: the
\* loaded-set it leaves.
reload_insert(loaded, r) ==
    IF r.status = "ok" THEN [loaded EXCEPT ![r.md[1].name] = r.md]
    ELSE loaded

\* reload_module(name), second half: insert on Ok, return the error on Err.
ReloadGot ==
    /\ mm_pc = "reload_got"
    /\ loaded_modules' = reload_insert(loaded_modules, mm_result[1])
    /\ mm_result' = None
    /\ mm_pc' = "serving"
    /\ UNCHANGED <<config, overflow_checks, now, cache_wasm, cache_json, local_files,
                   mm_next, mm_attempted, mm_succeeded>>
    /\ UNCHANGED <<dispatchVars, serverVars, startVars, guestVars>>

\* The system clock is not monotonic: SystemTime::now() may read any value.
ClockSet ==
    /\ \E t \in TimePoints : t # now /\ now' = t
    /\ UNCHANGED <<config, overflow_checks, cache_wasm, cache_json, local_files,
                   loaded_modules, mm_pc, mm_next, mm_attempted, mm_succeeded,
                   mm_result>>
    /\ UNCHANGED <<dispatchVars, serverVars, startVars, guestVars>>

\* The process ends (killed, or panicked) and is started again: the manager is
\* built anew, the cache directory is what the last run left.
Restart ==
    /\ mm_pc \in {"serving", "panicked"}
    /\ mm_pc' = "load_all"
    /\ mm_next' = 1
    /\ mm_attempted' = {}
    /\ mm_succeeded' = {}
    /\ loaded_modules' = [n \in ModuleNames |-> None]
    /\ mm_result' = None
    /\ UNCHANGED <<config, overflow_checks, now, cache_wasm, cache_json, local_files>>
    /\ UNCHANGED <<dispatchVars, serverVars, startVars, guestVars>>

NextManager ==
    \/ LoadAllCall
    \/ LoadAllGot
    \/ LoadAllReturn
    \/ ReloadCall
    \/ ReloadGot
    \/ ClockSet
    \/ Restart

SpecManager == InitManager /\ [][NextManager]_vars

\* ------------------------------------------------------------------------
\* Module manager: properties
\* ------------------------------------------------------------------------

\* A load_module / reload_module call returns in this step.
LoadReturns == mm_result = None /\ mm_result' # None

\* The call recorded in r downloaded bytes whose SHA-256 is not the configured one.
ChecksumMismatch(r) ==
    /\ r.cfg # None
    /\ r.cfg[1].source.type = "http"
    /\ r.cfg[1].source.checksum # None
    /\ r.body # None
    /\ calculate_checksum(r.body[1]) # r.cfg[1].source.checksum[1]

\* C4: when a checksum is configured and the downloaded bytes hash to another
\* value, load_module fails, <id>.wasm and <id>.json are left as they were, and
\* the caller adds nothing to the loaded-set.
C4_ChecksumMismatchRejected ==
    [][ /\ (LoadReturns /\ ChecksumMismatch(mm_result'[1]))
             => /\ mm_result'[1].status = "err"
                /\ cache_wasm' = cache_wasm
                /\ cache_json' = cache_json
                /\ loaded_modules' = loaded_modules
        /\ (mm_result # None /\ ChecksumMismatch(mm_result[1]))
             => loaded_modules' = loaded_modules ]_vars

\* C4 witness: a download with a wrong checksum has just been rejected while an
\* earlier download of the same module sits in the cache.
C4_Witness ==
    /\ mm_result # None
    /\ ChecksumMismatch(mm_result[1])
    /\ cache_wasm[module_id(mm_result[1].cfg[1])] # None
    /\ cache_json[module_id(mm_result[1].cfg[1])].state = "ok"

\* The cache entry of cfg is usable: the metadata parses, the module file
\* exists, and the entry is younger than the TTL.
CacheFresh(cfg) ==
    LET cached == load_cached_metadata(cache_json, module_id(cfg)) IN
    /\ cached # None
    /\ cache_wasm[module_id(cfg)] # None
    /\ cached[1].cached_at <= now
    /\ now - cached[1].cached_at < config.ttl_hours * SecondsPerHour

\* C5: loading an Http module whose cache entry is usable returns the cached
\* metadata without any HTTP request; in every other case a GET is issued.
C5_CacheHitIffFresh ==
    [][ (LoadReturns /\ mm_result'[1].cfg # None
           /\ mm_result'[1].cfg[1].source.type = "http")
          => IF CacheFresh(mm_result'[1].cfg[1])
             THEN /\ mm_result'[1].status = "ok"
                  /\ mm_result'[1].md =
                       load_cached_metadata(cache_json, module_id(mm_result'[1].cfg[1]))
                  /\ mm_result'[1].gets = 0
             ELSE mm_result'[1].gets = 1 ]_vars

\* C6: every <id>.wasm of the cache directory hashes to the checksum recorded
\* in its <id>.json.
C6_CacheIntegrity ==
    \A id \in CacheIds :
        (cache_wasm[id] # None /\ cache_json[id].state = "ok")
          => calculate_checksum(cache_wasm[id][1]) = cache_json[id].md[1].checksum

\* C7: the checksum of the metadata a successful load returns is the SHA-256
\* of the file at its wasm_path when the load returns.
C7_ChecksumOfBytesAtLoad ==
    (mm_result # None /\ mm_result[1].status = "ok")
      => LET file == FileAt(mm_result[1].md[1].wasm_path, cache_wasm, local_files) IN
         /\ file # None
         /\ mm_result[1].md[1].checksum = calculate_checksum(file[1])

\* C8: load_all_modules is never cut short, and when it returns every enabled
\* module has been attempted and the loaded-set holds exactly the names of the
\* enabled modules whose load succeeded.
C8_LoadAllNeverAborts ==
    [][ /\ mm_pc = "load_all" => mm_pc' # "panicked"
        /\ (mm_pc = "load_all" /\ mm_pc' = "serving")
             => /\ mm_attempted = 1..Len(enabled_modules(config))
                /\ {n \in ModuleNames : loaded_modules[n] # None}
                     = {enabled_modules(config)[i].name : i \in mm_succeeded} ]_vars

\* ------------------------------------------------------------------------
\* Dispatch: state machine
\* ------------------------------------------------------------------------

UrlHttp == <<"h", "t", "t", "p", ":", "/", "/", "a">>
UrlFtp == <<"f", "t", "p", ":", "/", "/", "x">>
PathTmp == <<"/", "t", "m", "p", "/", "a", ".", "t", "x", "t">>

CmdLs == <<"l", "s">>
CmdLsArgs == <<"l", "s", " ", "-", "l">>
CmdEchoPadded == <<" ", "e", "c", "h", "o", " ", " ", "h", "i">>
CmdCatTab == <<"c", "a", "t", "\t", "f">>
CmdRm == <<"r", "m", " ", "x">>
CmdBlank == <<" ", " ">>

Commands == {<<>>, CmdBlank, CmdLs, CmdLsArgs, CmdEchoPadded, CmdCatTab, CmdRm}

CsvEmpty == <<>>
CsvBlank == <<" ", ",", " ">>
CsvLs == <<"l", "s">>
CsvSpaced == <<" ", "r", "m", " ", ",", " ", ",", "c", "a", "t">>

\* The tools table of the module's configuration.
ShellToolTables ==
    { None,
      Some(<<ToolConfig("sum", "add", None)>>),
      Some(<<ToolConfig("sh", "prepare_shell_exec", None)>>),
      Some(<<ToolConfig("sh", "prepare_shell_exec", Some(ToolSecurityConfig(None)))>>),
      Some(<<ToolConfig("sh", "prepare_shell_exec",
                        Some(ToolSecurityConfig(Some(<<>>))))>>),
      Some(<<ToolConfig("sh", "prepare_shell_exec",
                        Some(ToolSecurityConfig(Some(<<Echo>>))))>>),
      Some(<<ToolConfig("sum", "add", Some(ToolSecurityConfig(Some(<<Wc>>)))),
             ToolConfig("sh", "prepare_shell_exec",
                        Some(ToolSecurityConfig(Some(<<Ls, Rm>>)))),
             ToolConfig("sh2", "prepare_shell_exec",
                        Some(ToolSecurityConfig(Some(<<Cat>>))))>>) }

\* The metadata table of the module's configuration.
ShellMetadata ==
    { None, Some([allowed_commands_csv |-> None]) }
    \cup { Some([allowed_commands_csv |-> Some(csv)]) :
             csv \in {CsvEmpty, CsvBlank, CsvLs, CsvSpaced} }

DispatchModuleLists ==
    { <<ModuleConfig("other", LocalSource(AbsPath), TRUE)>> }
    \cup { <<ModuleConfigWith("test-module", LocalSource(AbsPath), TRUE, t, m)>> :
             t \in ShellToolTables, m \in ShellMetadata }

ToolsCall(name, arguments) ==
    MCPRequest(Some(1), "tools/call", Some([name |-> name, arguments |-> arguments]))

SampleRequests ==
    { MCPRequest(None, "initialize", None),
      MCPRequest(Some(1), "tools/list", None),
      MCPRequest(Some(1), "resources/list", None),
      MCPRequest(Some(1), "tools/call", None),
      MCPRequest(Some(1), "tools/call", Some([arguments |-> [url |-> StrVal(UrlHttp)]])),
      MCPRequest(Some(1), "tools/call", Some([name |-> "add"])),
      ToolsCall("nope", [a |-> IntVal(1)]),
      ToolsCall("add", [a |-> IntVal(1), b |-> IntVal(2)]),
      ToolsCall("add", [a |-> IntVal(I32Modulus \div 2), b |-> IntVal(-1)]),
      ToolsCall("add", [a |-> IntVal(1)]),
      ToolsCall("add", [a |-> IntVal((I64Modulus - 1) \div 2),
                        b |-> IntVal(-(I64Modulus \div 2))]),
      ToolsCall("add", [a |-> IntVal(I64Modulus \div 2 + 1), b |-> IntVal(1)]),
      ToolsCall("add", [a |-> FloatVal(1), b |-> IntVal(1)]),
      ToolsCall("add", [a |-> IntVal(1), b |-> StrVal(CmdLs)]),
      ToolsCall("validate_url", [url |-> StrVal(UrlFtp)]),
      ToolsCall("test-module::process_response", [data |-> StrVal(CmdLs)]),
      ToolsCall("process_response", [url |-> StrVal(UrlHttp)]),
      ToolsCall("prepare_http_get", [url |-> StrVal(UrlHttp)]),
      ToolsCall("prepare_http_get", [url |-> StrVal(UrlFtp)]),
      ToolsCall("prepare_http_get", [path |-> StrVal(PathTmp)]),
      ToolsCall("prepare_file_read", [path |-> StrVal(PathTmp)]),
      ToolsCall("prepare_file_read", [path |-> IntVal(1)]),
      ToolsCall("prepare_file_write", [path |-> StrVal(PathTmp),
                                       content |-> StrVal(CmdLs)]),
      ToolsCall("prepare_file_write", [path |-> StrVal(PathTmp),
                                       content |-> LongStrVal(WriteLimit)]),
      ToolsCall("prepare_file_write", [path |-> StrVal(PathTmp),
                                       content |-> LongStrVal(WriteLimit + 1)]),
      ToolsCall("prepare_file_write", [path |-> StrVal(PathTmp)]),
      ToolsCall("prepare_shell_exec", [command |-> IntVal(1)]),
      ToolsCall("fetch", [url |-> StrVal(UrlHttp)]),
      ToolsCall("fetch", [data |-> StrVal(UrlHttp)]),
      ToolsCall("prepare_recommend_mcps", [task |-> StrVal(CmdLs)]),
      ToolsCall("prepare_recommend_mcps", [data |-> StrVal(CmdLs)]),
      ToolsCall("validate_url", [url |-> StrVal(UrlHttp)]),
      ToolsCall("validate_url", [data |-> StrVal(UrlHttp)]),
      ToolsCall("clock_version", <<>>),
      ToolsCall("clock::version", [a |-> IntVal(1)]) }
    \cup { ToolsCall("prepare_shell_exec", [command |-> StrVal(c)]) : c \in Commands }

GuestReturnValues == {0, 1, 2, HttpStatusOk}

GuestOutcomes ==
    {GuestReturn(v) : v \in GuestReturnValues}
      \cup {GuestTrap, GuestNotLoaded, GuestNoMemory, GuestWriteFailed, GuestNoFunction}

\* The calls by value write nothing into the guest's memory.
DirectOutcomes == GuestOutcomes \ {GuestNoMemory, GuestWriteFailed}

Net(kind, body) == [kind |-> kind, body |-> body]

NetOutcomes ==
    { Net("transport_error", Text(0, TRUE)), Net("body_error", Text(0, TRUE)),
      Net("status_error", Text(1, TRUE)), Net("ok", Text(1, TRUE)),
      Net("ok", Text(PreviewLen + 1, TRUE)), Net("ok", Text(PreviewLen + 1, FALSE)) }

File(kind, content) == [kind |-> kind, content |-> content]

FileOutcomes ==
    { File("error", Text(0, TRUE)), File("ok", Text(1, TRUE)),
      File("ok", Text(ReadLimit, TRUE)), File("ok", Text(ReadLimit + 1, TRUE)) }

Proc(kind, exit_after, exit_code, stdout, stderr) ==
    [kind |-> kind, exit_after |-> exit_after, exit_code |-> exit_code,
     stdout |-> stdout, stderr |-> stderr]

ProcOutcomes ==
    { Proc("spawn_error", 0, 0, Bytes(0, TRUE, 0), Bytes(0, TRUE, 0)),
      Proc("wait_error", 0, 0, Bytes(0, TRUE, 0), Bytes(0, TRUE, 0)),
      Proc("hangs", 0, 0, Bytes(0, TRUE, 0), Bytes(0, TRUE, 0)),
      Proc("exited", ShellTimeoutSecs + 1, 0, Bytes(1, TRUE, 0), Bytes(0, TRUE, 0)),
      Proc("exited", ShellTimeoutSecs, 0, Bytes(1, TRUE, 0), Bytes(0, TRUE, 0)),
      Proc("exited", 0, 0, Bytes(1, TRUE, 0), Bytes(0, TRUE, 0)),
      Proc("exited", 0, 0, Bytes(1, TRUE, 1), Bytes(0, TRUE, 0)),
      Proc("exited", 1, 1, Bytes(MaxOutputLen + 1, TRUE, 0),
           Bytes(MaxOutputLen, TRUE, 0)),
      Proc("exited", 0, 0, Bytes(1, TRUE, 0), Bytes(MaxOutputLen + 1, FALSE, 0)) }

DispatchEnv(g, g2, net, file, proc) ==
    [g |-> g, g2 |-> g2, net |-> net, file |-> file, proc |-> proc]

\* The function the request's tool name resolves to, "" when there is none.
requested_function(request) ==
    IF /\ request.method = "tools/call"
       /\ request.params # None
       /\ "name" \in DOMAIN request.params[1]
       /\ find_tool_by_name(request.params[1].name) # None
    THEN find_tool_by_name(request.params[1].name)[1].function_name
    ELSE ""

\* What the environment decides while one request is handled: what the guest
\* returns, and how the host I/O the handler may reach ends.
DispatchEnvs(request) ==
    LET f == requested_function(request)
        g0 == GuestReturn(1)
        n0 == Net("transport_error", Text(0, TRUE))
        f0 == File("error", Text(0, TRUE))
        p0 == Proc("spawn_error", 0, 0, Bytes(0, TRUE, 0), Bytes(0, TRUE, 0))
    IN
    IF f = "" THEN {DispatchEnv(g0, g0, n0, f0, p0)}
    ELSE IF f = "prepare_http_get"
    THEN {DispatchEnv(g, g0, n, f0, p0) : g \in GuestOutcomes, n \in NetOutcomes}
    ELSE IF f = "fetch"
    THEN {DispatchEnv(g, g2, n, f0, p0) :
            g \in GuestOutcomes, g2 \in GuestOutcomes, n \in NetOutcomes}
    ELSE IF f \in {"prepare_file_read", "prepare_file_write"}
    THEN {DispatchEnv(g, g0, n0, fl, p0) : g \in GuestOutcomes, fl \in FileOutcomes}
    ELSE IF f = "prepare_shell_exec"
    THEN {DispatchEnv(g, g0, n0, f0, pr) : g \in GuestOutcomes, pr \in ProcOutcomes}
    ELSE IF f \in {"add", "version"}
    THEN {DispatchEnv(g, g0, n0, f0, p0) : g \in DirectOutcomes}
    ELSE {DispatchEnv(g, g0, n0, f0, p0) : g \in GuestOutcomes}

\* The module manager has finished loading and is left alone.
ManagerQuiescent ==
    /\ overflow_checks = FALSE
    /\ now = 0
    /\ cache_wasm = [id \in CacheIds |-> None]
    /\ cache_json = [id \in CacheIds |-> JsonAbsent]
    /\ local_files = [p \in FsPaths |-> None]
    /\ loaded_modules = [n \in ModuleNames |-> None]
    /\ mm_pc = "serving"
    /\ mm_next = 1
    /\ mm_attempted = {}
    /\ mm_succeeded = {}
    /\ mm_result = None

InitDispatch ==
    /\ config \in [modules : DispatchModuleLists, ttl_hours : {1}]
    /\ ManagerQuiescent
    /\ DispatchQuiescent
    /\ ServerQuiescent
    /\ StartQuiescent
    /\ GuestQuiescent

\* One request line is parsed and handled: handle_mcp_message runs to its end
\* and the reply is produced, or a panic unwinds through it.
HandleMessage ==
    /\ d_alive
    /\ d_request = None
    /\ \E request \in SampleRequests :
         \E env \in DispatchEnvs(request) :
           LET r == handle_mcp_message(request, config, env) IN
           /\ d_request' = Some(request)
           /\ d_trace' = r.events
           /\ d_reply' = IF r.result.kind = "ok" THEN Some(r.result.value) ELSE None
           /\ d_env' = Some(env)
           /\ d_alive' = (r.result.kind = "ok")
    /\ UNCHANGED <<mmVars, serverVars, startVars, guestVars>>

\* The reply is written out and the loop turns to the next line.
WriteReply ==
    /\ d_alive
    /\ d_request # None
    /\ d_request' = None
    /\ d_trace' = <<>>
    /\ d_reply' = None
    /\ d_env' = None
    /\ UNCHANGED <<d_alive, mmVars, serverVars, startVars, guestVars>>

\* After a panic the process is gone; it is started again.
ServerRestart ==
    /\ ~d_alive
    /\ d_alive' = TRUE
    /\ d_request' = None
    /\ d_trace' = <<>>
    /\ d_reply' = None
    /\ d_env' = None
    /\ UNCHANGED <<mmVars, serverVars, startVars, guestVars>>

NextDispatch ==
    \/ HandleMessage
    \/ WriteReply
    \/ ServerRestart

SpecDispatch == InitDispatch /\ [][NextDispatch]_vars

\* ------------------------------------------------------------------------
\* Dispatch: properties
\* ------------------------------------------------------------------------

IsHostIo(e) == e.kind \in {"http_get", "file_read", "file_write", "spawn"}

\* The tools that reach host I/O, and the guest function that validates each.
Capabilities ==
    {"prepare_http_get", "prepare_file_read", "prepare_file_write",
     "prepare_shell_exec", "fetch"}

ValidatorOf(f) == IF f = "fetch" THEN "validate_url" ELSE f

\* The input a host I/O step acts on.
IoSubject(e, request) ==
    IF e.kind = "http_get" THEN e.url
    ELSE IF e.kind = "spawn" THEN request.params[1].arguments.command.chars
    ELSE e.path

\* C1: in a tools/call handled by a capability, every host I/O step comes after
\* a call of the capability's guest validator on the same input that returned
\* 1; and when the validator returned anything else (or trapped) the request
\* performs no host I/O and is answered with an error.
C1_DualValidation ==
    (d_request # None /\ requested_function(d_request[1]) \in Capabilities)
      => LET f == requested_function(d_request[1])
             validated(i) ==
                 \E j \in 1..(i - 1) :
                     /\ d_trace[j].kind = "guest"
                     /\ d_trace[j].function = ValidatorOf(f)
                     /\ d_trace[j].ret = Some(1)
                     /\ d_trace[j].input = IoSubject(d_trace[i], d_request[1])
             rejected ==
                 \E j \in DOMAIN d_trace :
                     /\ d_trace[j].kind = "guest"
                     /\ d_trace[j].function = ValidatorOf(f)
                     /\ d_trace[j].ret # Some(1)
         IN
         /\ \A i \in DOMAIN d_trace : IsHostIo(d_trace[i]) => validated(i)
         /\ rejected => /\ \A i \in DOMAIN d_trace : ~IsHostIo(d_trace[i])
                        /\ d_reply # None
                        /\ d_reply[1].error # None
                        /\ d_reply[1].result = None

\* C1 witness: a file write was carried out and answered with a result.
C1_Witness ==
    /\ d_request # None
    /\ requested_function(d_request[1]) = "prepare_file_write"
    /\ \E i \in DOMAIN d_trace : d_trace[i].kind = "file_write"
    /\ d_reply # None
    /\ d_reply[1].result # None

\* A prepare_shell_exec call that carries a command string is being answered.
IsShellRequest ==
    /\ d_request # None
    /\ requested_function(d_request[1]) = "prepare_shell_exec"
    /\ "arguments" \in DOMAIN d_request[1].params[1]
    /\ get_str(d_request[1].params[1].arguments, "command") # None

\* The allow-list in the documented order: the per-tool list if non-empty, else
\* the parsed metadata CSV if non-empty, else the defaults.
EffectiveAllowList(module_config_opt) ==
    IF module_config_opt = None THEN DefaultAllowedCommands
    ELSE IF allowed_after_tool_security(module_config_opt[1], <<>>) # <<>>
    THEN allowed_after_tool_security(module_config_opt[1], <<>>)
    ELSE IF allowed_after_metadata_csv(module_config_opt[1], <<>>) # <<>>
    THEN allowed_after_metadata_csv(module_config_opt[1], <<>>)
    ELSE DefaultAllowedCommands

ShellModuleConfig ==
    find_module(config, find_tool_by_name(d_request[1].params[1].name)[1].module_name)

\* C2: a prepare_shell_exec request spawns a process only if the first
\* whitespace-separated token of the command is in the effective allow-list;
\* the program is that token and its arguments are the remaining tokens; when
\* the token is not in the list nothing is spawned and the reply is an error.
C2_AllowListGate ==
    IsShellRequest
      => LET tokens == split_whitespace(d_request[1].params[1].arguments.command.chars)
             allowed == EffectiveAllowList(ShellModuleConfig)
             in_list == /\ tokens # <<>>
                        /\ \E k \in DOMAIN allowed : allowed[k] = tokens[1]
         IN
         /\ \A i \in DOMAIN d_trace :
              d_trace[i].kind = "spawn"
                => /\ in_list
                   /\ d_trace[i].program = tokens[1]
                   /\ d_trace[i].args = Tail(tokens)
         /\ ~in_list => /\ \A i \in DOMAIN d_trace : d_trace[i].kind # "spawn"
                        /\ d_reply # None
                        /\ d_reply[1].error # None

\* C3: the allow-list handed to the shell capability is the per-tool list if it
\* is non-empty, otherwise the parsed metadata CSV if that is non-empty,
\* otherwise the defaults.
C3_AllowListResolutionOrder ==
    IsShellRequest
      => resolve_allowed_commands(ShellModuleConfig) = EffectiveAllowList(ShellModuleConfig)

\* ------------------------------------------------------------------------
\* Request loops (main.rs: run_stdio_server, run_tcp_server,
\* handle_tcp_connection): state machine
\* ------------------------------------------------------------------------

\* Input lines: the n-th line of its connection, a request or not.
RequestLine(n, request) == [kind |-> "request", n |-> n, request |-> request]
BlankLine(n) == [kind |-> "blank", n |-> n, request |-> MCPRequest(None, "", None)]
MalformedLine(n) ==
    [kind |-> "malformed", n |-> n, request |-> MCPRequest(None, "", None)]

\* What a client may send on one connection.
Scripts ==
    { <<RequestLine(1, ToolsCall("prepare_file_read", [path |-> StrVal(PathTmp)])),
        RequestLine(2, MCPRequest(Some(1), "tools/list", None))>>,
      <<MalformedLine(1),
        RequestLine(2, ToolsCall("prepare_shell_exec", [command |-> StrVal(CmdLsArgs)]))>>,
      <<BlankLine(1),
        RequestLine(2, ToolsCall("fetch", [url |-> StrVal(UrlHttp)])),
        RequestLine(3, MCPRequest(None, "initialize", None))>> }

\* How the guest and the host I/O of one request may turn out.
ServerEnvs ==
    { DispatchEnv(GuestReturn(1), GuestReturn(HttpStatusOk), Net("ok", Text(1, TRUE)),
                  File("ok", Text(1, TRUE)),
                  Proc("exited", 0, 0, Bytes(1, TRUE, 0), Bytes(0, TRUE, 0))),
      DispatchEnv(GuestReturn(0), GuestReturn(0), Net("ok", Text(1, TRUE)),
                  File("ok", Text(1, TRUE)),
                  Proc("exited", 0, 0, Bytes(1, TRUE, 0), Bytes(0, TRUE, 0))),
      DispatchEnv(GuestReturn(1), GuestReturn(HttpStatusOk),
                  Net("ok", Text(PreviewLen + 1, FALSE)),
                  File("error", Text(0, TRUE)),
                  Proc("exited", 0, 0, Bytes(1, TRUE, 0), Bytes(MaxOutputLen + 1, FALSE, 0))) }

ServedConfig ==
    [modules |-> <<ModuleConfig("test-module", LocalSource(AbsPath), TRUE)>>,
     ttl_hours |-> 1]

\* A reader that hands out the newest line first: what the order of reading is
\* measured against.
read_newest_line(input) ==
    [line |-> input[Len(input)], rest |-> SubSeq(input, 1, Len(input) - 1)]

\* BufRead::lines / read_line: the lines come in the order they were sent.
read_line(input) == [line |-> Head(input), rest |-> Tail(input)]

\* A lock that never makes anybody wait: what the mutex is measured against.
mutex_never_waits(owner) == TRUE

\* Mutex::lock().await completes only while nobody owns the mutex.
mutex_can_lock(owner) == owner = None

\* A guard that is dropped as soon as handle_mcp_message has returned: what
\* the lifetime of the guard is measured against.
guard_dropped_before_write(owner) == None

\* The MutexGuard bound at line 419 lives to the end of the match arm, line
\* 425: it is still held while the reply is written and flushed.
guard_while_writing(owner) == owner

LogEntry(c, n, what, event) == [conn |-> c, n |-> n, what |-> what, event |-> event]

NoEvent == [kind |-> "none"]

InitServer ==
    /\ config = ServedConfig
    /\ ManagerQuiescent
    /\ DispatchQuiescent
    /\ StartQuiescent
    /\ GuestQuiescent
    /\ s_mode \in {"stdio", "tcp"}
    /\ s_in \in [Conns -> Scripts]
    /\ s_pc = [c \in Conns |-> IF s_mode = "tcp" \/ c = 1 THEN "reading" ELSE "absent"]
    /\ s_cur = [c \in Conns |-> None]
    /\ s_plan = [c \in Conns |-> None]
    /\ s_lock = None
    /\ s_log = <<>>

\* The loop reads the next line: blank lines are skipped, unparseable lines
\* are logged to stderr, a request goes on to be handled.
ReadLine ==
    \E c \in Conns :
      /\ s_pc[c] = "reading"
      /\ s_in[c] # <<>>
      /\ s_in' = [s_in EXCEPT ![c] = read_line(s_in[c]).rest]
      /\ IF read_line(s_in[c]).line.kind = "request"
         THEN /\ s_cur' = [s_cur EXCEPT ![c] = Some(read_line(s_in[c]).line)]
              /\ s_pc' = [s_pc EXCEPT ![c] = "waiting"]
         ELSE UNCHANGED <<s_cur, s_pc>>
      /\ UNCHANGED <<s_mode, s_plan, s_lock, s_log, mmVars, dispatchVars, startVars, guestVars>>

\* End of input: read_line returns 0 / the lines iterator ends.
ReadEof ==
    \E c \in Conns :
      /\ s_pc[c] = "reading"
      /\ s_in[c] = <<>>
      /\ s_pc' = [s_pc EXCEPT ![c] = "closed"]
      /\ UNCHANGED <<s_mode, s_in, s_cur, s_plan, s_lock, s_log, mmVars, dispatchVars, startVars, guestVars>>

\* handle_mcp_message is entered: on TCP once the mutex is acquired, on stdio
\* at once (the loop owns the server).
StartHandling ==
    \E c \in Conns :
      /\ s_pc[c] = "waiting"
      /\ s_mode = "tcp" => mutex_can_lock(s_lock)
      /\ \E env \in ServerEnvs :
           s_plan' = [s_plan EXCEPT
                        ![c] = Some(handle_mcp_message(s_cur[c][1].request, config, env))]
      /\ s_lock' = IF s_mode = "tcp" THEN Some(c) ELSE s_lock
      /\ s_pc' = [s_pc EXCEPT ![c] = "handling"]
      /\ s_log' = Append(s_log, LogEntry(c, s_cur[c][1].n, "start", NoEvent))
      /\ UNCHANGED <<s_mode, s_in, s_cur, mmVars, dispatchVars, startVars, guestVars>>

\* The handler performs its next guest call or host I/O.
HandlerStep ==
    \E c \in Conns :
      /\ s_pc[c] = "handling"
      /\ s_plan[c][1].events # <<>>
      /\ s_log' = Append(s_log, LogEntry(c, s_cur[c][1].n, "step",
                                         Head(s_plan[c][1].events)))
      /\ s_plan' = [s_plan EXCEPT ![c] = Some(Did(s_plan[c][1].result,
                                                  Tail(s_plan[c][1].events)))]
      /\ UNCHANGED <<s_mode, s_in, s_pc, s_cur, s_lock, mmVars, dispatchVars, startVars, guestVars>>

\* handle_mcp_message returns its reply, or a panic unwinds: on TCP it ends
\* the connection's task and drops the guard, on stdio it ends the process.
HandlerReturn ==
    \E c \in Conns :
      /\ s_pc[c] = "handling"
      /\ s_plan[c][1].events = <<>>
      /\ IF s_plan[c][1].result.kind = "ok"
         THEN /\ s_pc' = [s_pc EXCEPT ![c] = "writing"]
              /\ s_lock' = IF s_mode = "tcp" THEN guard_while_writing(s_lock)
                           ELSE s_lock
              /\ UNCHANGED <<s_cur, s_plan>>
         ELSE /\ s_pc' = IF s_mode = "tcp" THEN [s_pc EXCEPT ![c] = "dead"]
                         ELSE [k \in Conns |-> IF s_pc[k] = "absent" THEN "absent"
                                               ELSE "dead"]
              /\ s_lock' = None
              /\ s_cur' = [s_cur EXCEPT ![c] = None]
              /\ s_plan' = [s_plan EXCEPT ![c] = None]
      /\ UNCHANGED <<s_mode, s_in, s_log, mmVars, dispatchVars, startVars, guestVars>>

\* The reply line is written (and flushed); the guard is dropped at the end of
\* the match arm.  A failed write ends the connection on TCP (the `?`), and
\* the process on stdio (println! panics).
SendReply ==
    \E c \in Conns :
      /\ s_pc[c] = "writing"
      /\ \E written \in BOOLEAN :
           IF written
           THEN /\ s_log' = Append(s_log, LogEntry(c, s_cur[c][1].n, "reply", NoEvent))
                /\ s_pc' = [s_pc EXCEPT ![c] = "reading"]
           ELSE /\ s_log' = s_log
                /\ s_pc' = [s_pc EXCEPT ![c] = IF s_mode = "tcp" THEN "closed"
                                               ELSE "dead"]
      /\ s_lock' = None
      /\ s_cur' = [s_cur EXCEPT ![c] = None]
      /\ s_plan' = [s_plan EXCEPT ![c] = None]
      /\ UNCHANGED <<s_mode, s_in, mmVars, dispatchVars, startVars, guestVars>>

NextServer ==
    \/ ReadLine
    \/ ReadEof
    \/ StartHandling
    \/ HandlerStep
    \/ HandlerReturn
    \/ SendReply

SpecServer == InitServer /\ [][NextServer]_vars

\* ------------------------------------------------------------------------
\* Request loops: properties
\* ------------------------------------------------------------------------

\* C9: on TCP at most one request is being processed at any time, its
\* connection owns the server state, and the guest calls and host I/O steps of
\* one request are never interleaved with those of another connection.
C9_GlobalSerialisation ==
    s_mode = "tcp"
      => /\ Cardinality({c \in Conns : s_pc[c] \in {"handling", "writing"}}) <= 1
         /\ \A c \in Conns : s_pc[c] \in {"handling", "writing"} => s_lock = Some(c)
         /\ \A i, k \in DOMAIN s_log :
              (i < k /\ s_log[i].conn = s_log[k].conn /\ s_log[i].n = s_log[k].n)
                => \A j \in i..k : s_log[j].conn = s_log[i].conn

\* C9 witness: one connection is in the middle of its handler's steps while
\* the other, already served once, waits with a request for the lock.
C9_Witness ==
    /\ s_mode = "tcp"
    /\ \E c, d \in Conns :
         /\ c # d
         /\ s_pc[c] = "handling"
         /\ s_pc[d] = "waiting"
         /\ \E i \in DOMAIN s_log : s_log[i].conn = d /\ s_log[i].what = "step"
         /\ \E i \in DOMAIN s_log : s_log[i].conn = c /\ s_log[i].what = "step"

\* C10: on one connection the requests are processed and answered in their
\* arrival order, and the reply to a request is written before the next
\* request of that connection starts being processed.
C10_PerConnectionOrdering ==
    \A i, j \in DOMAIN s_log :
      (i < j /\ s_log[i].conn = s_log[j].conn)
        => /\ s_log[i].n <= s_log[j].n
           /\ (s_log[i].what = "reply" /\ s_log[j].what = "reply")
                => s_log[i].n < s_log[j].n
           /\ (s_log[i].what = "start" /\ s_log[j].what = "start")
                => \E k \in (i + 1)..(j - 1) :
                     /\ s_log[k].conn = s_log[i].conn
                     /\ s_log[k].what = "reply"
                     /\ s_log[k].n = s_log[i].n

\* C10 witness: a connection has had two requests answered, with handler steps
\* in between.
C10_Witness ==
    \E i, j, k \in DOMAIN s_log :
      /\ i < j /\ j < k
      /\ s_log[i].conn = s_log[k].conn
      /\ s_log[j].conn = s_log[k].conn
      /\ s_log[i].what = "reply"
      /\ s_log[j].what = "start"
      /\ s_log[k].what = "reply"

\* ------------------------------------------------------------------------
\* Error replies: properties
\* ------------------------------------------------------------------------

KnownMethods == {"initialize", "tools/list", "tools/call"}

\* C11: every handled request gets exactly one reply carrying its id and
\* exactly one of result / error, and the server stays able to serve the next
\* request; a failing tools/call is answered with code -32000 and an unknown
\* method with code -32601.
C11_ErrorsBecomeReplies ==
    d_request # None
      => /\ d_alive
         /\ d_reply # None
         /\ d_reply[1].id = d_request[1].id
         /\ (d_reply[1].result = None) # (d_reply[1].error = None)
         /\ (d_request[1].method = "tools/call" /\ d_reply[1].error # None)
              => d_reply[1].error[1].code = -32000
         /\ d_request[1].method \notin KnownMethods
              => d_reply[1].error # None /\ d_reply[1].error[1].code = -32601

\* C12: a non-empty line that does not parse as a request is answered with an
\* error reply on its connection: once it is read, a reply to it is pending or
\* written.
C12_MalformedLineAnswered ==
    [][\A c \in Conns :
         ( /\ s_pc[c] = "reading"
           /\ s_in[c] # <<>>
           /\ Head(s_in[c]).kind = "malformed"
           /\ s_in'[c] = Tail(s_in[c]) )
           => \/ s_pc'[c] \in {"waiting", "handling", "writing"}
              \/ \E i \in DOMAIN s_log' :
                   /\ s_log'[i].conn = c
                   /\ s_log'[i].n = Head(s_in[c]).n
                   /\ s_log'[i].what = "reply"]_vars

\* ------------------------------------------------------------------------
\* Names (module names, export names, tool names) as the code handles them
\* ------------------------------------------------------------------------

TestModule == <<"t", "e", "s", "t", "-", "m", "o", "d", "u", "l", "e">>
ModAB == <<"a", "-", "b">>
ModA == <<"a">>
ModAUnderB == <<"a", "_", "b">>
ModAColonB == <<"a", ":", ":", "b">>
ModDup == <<"d", "u", "p">>
FnAdd == <<"a", "d", "d">>
FnValidateUrl ==
    <<"v", "a", "l", "i", "d", "a",
      "t", "e", "_", "u", "r", "l">>
FnProcessResponse ==
    <<"p", "r", "o", "c", "e", "s", "s", "_",
      "r", "e", "s", "p", "o", "n", "s", "e">>
FnPrepareHttpGet ==
    <<"p", "r", "e", "p", "a", "r", "e", "_",
      "h", "t", "t", "p", "_", "g", "e", "t">>
FnPrepareFileRead ==
    <<"p", "r", "e", "p", "a", "r", "e", "_",
      "f", "i", "l", "e", "_", "r", "e", "a", "d">>
FnPrepareFileWrite ==
    <<"p", "r", "e", "p", "a", "r", "e", "_", "f",
      "i", "l", "e", "_", "w", "r", "i", "t", "e">>
FnPrepareShellExec ==
    <<"p", "r", "e", "p", "a", "r", "e", "_", "s",
      "h", "e", "l", "l", "_", "e", "x", "e", "c">>
FnPrepareRecommendMcps ==
    <<"p", "r", "e", "p", "a", "r", "e", "_", "r", "e", "c",
      "o", "m", "m", "e", "n", "d", "_", "m", "c", "p", "s">>
FnInit == <<"_", "i", "n", "i", "t">>
FnVersion == <<"v", "e", "r", "s", "i", "o", "n">>
FnWide == <<"w", "i", "d", "e">>
FnC == <<"c">>
FnBColonC == <<"b", ":", ":", "c">>
ExpMemory == <<"m", "e", "m", "o", "r", "y">>
NameFetch == <<"f", "e", "t", "c", "h">>
NameSum == <<"s", "u", "m">>

\* str::starts_with
starts_with(s, prefix) ==
    Len(s) >= Len(prefix) /\ SubSeq(s, 1, Len(prefix)) = prefix

\* str::replace(from, to) for a one-character pattern
replace(s, from, to) == [i \in DOMAIN s |-> IF s[i] = from THEN to ELSE s[i]]

\* HashMap: insert replaces the value of a key already present.
insert(map, key, value) == (key :> value) @@ map
remove(map, key) == [k \in DOMAIN map \ {key} |-> map[k]]
get(map, key) == IF key \in DOMAIN map THEN Some(map[key]) ELSE None

\* ------------------------------------------------------------------------
\* Executor: loaded modules and their exports (wasm_executor.rs)
\* ------------------------------------------------------------------------

\* A third well-formed module, and one whose header is fine but which the
\* engine cannot instantiate.
WasmC == <<0, 97, 115, 109, 1, 0, 0, 0, 12>>
WasmNoInstance == <<0, 97, 115, 109, 1, 0, 0, 0, 13>>

\* wasmtime FuncType, as far as matches_pattern tells signatures apart.
SigI32I32ToI32 == [params |-> <<"i32", "i32">>, results |-> <<"i32">>]
SigToI32 == [params |-> <<>>, results |-> <<"i32">>]
SigI64ToI64 == [params |-> <<"i64">>, results |-> <<"i64">>]

FuncExport(name, sig) == [name |-> name, kind |-> "func", sig |-> sig]
MemoryExport(name) == [name |-> name, kind |-> "memory", sig |-> SigToI32]

\* Module::exports() of the compiled bytes, in declaration order; export
\* names are unique within a module.
module_exports(wasm_bytes) ==
    IF wasm_bytes = WasmA
    THEN << MemoryExport(ExpMemory),
            FuncExport(FnAdd, SigI32I32ToI32),
            FuncExport(FnValidateUrl, SigI32I32ToI32),
            FuncExport(FnProcessResponse, SigI32I32ToI32),
            FuncExport(FnInit, SigToI32),
            FuncExport(FnVersion, SigToI32),
            FuncExport(FnPrepareHttpGet, SigToI32),
            FuncExport(FnWide, SigI64ToI64) >>
    ELSE IF wasm_bytes = WasmB
    THEN << MemoryExport(ExpMemory),
            FuncExport(FnC, SigI32I32ToI32),
            FuncExport(FnValidateUrl, SigI32I32ToI32),
            FuncExport(FnProcessResponse, SigI32I32ToI32) >>
    ELSE IF wasm_bytes = WasmC
    THEN << FuncExport(FnBColonC, SigI32I32ToI32),
            FuncExport(FnPrepareShellExec, SigI32I32ToI32) >>
    ELSE <<>>

\* Module::new and Instance::new with no imports.
instantiates(wasm_bytes) ==
    validate_wasm_module(wasm_bytes) = "ok" /\ wasm_bytes # WasmNoInstance

LoadedModule(metadata, wasm_bytes) == [metadata |-> metadata, module |-> wasm_bytes]

\* Names an export lookup may be asked for.
QueriedNames ==
    {FnAdd, FnValidateUrl, FnProcessResponse, FnInit, FnVersion, FnWide, FnC,
     FnBColonC, FnPrepareShellExec, ExpMemory, NameFetch, NameSum}

\* get_module_functions: the names of the exports that are functions.
get_module_functions(modules, module_name) ==
    IF module_name \notin DOMAIN modules THEN Err("module not loaded")
    ELSE Ok(SelectSeq(module_exports(modules[module_name].module),
                      LAMBDA e : e.kind = "func"))

\* get_function_signature without the ExternType::Func test: what the test is
\* measured against.
get_function_signature_of_any_export(modules, module_name, function_name) ==
    IF module_name \notin DOMAIN modules THEN Err("module not loaded")
    ELSE LET exports == module_exports(modules[module_name].module)
             found == SelectSeq(exports, LAMBDA e : e.name = function_name)
         IN IF found = <<>> THEN Err("function not found") ELSE Ok(found[1].sig)

\* get_function_signature: the first export of that name that is a function.
get_function_signature(modules, module_name, function_name) ==
    IF module_name \notin DOMAIN modules THEN Err("module not loaded")
    ELSE LET exports == module_exports(modules[module_name].module)
             found == SelectSeq(exports, LAMBDA e : e.name = function_name
                                                    /\ e.kind = "func")
         IN IF found = <<>> THEN Err("function not found") ELSE Ok(found[1].sig)

\* get_all_functions: module name -> names of its function exports.
get_all_functions(modules) ==
    [m \in DOMAIN modules |->
       LET fs == get_module_functions(modules, m).value IN
       [i \in DOMAIN fs |-> fs[i].name]]

\* ------------------------------------------------------------------------
\* Startup: Config::validate, load_all_modules, load_modules_from_manager
\* ------------------------------------------------------------------------

\* Path::exists for a relative path looks it up against the current directory.
local_path_reachable(path, files) ==
    \/ files[<<"cwd", path.rel>>] # None
    \/ files[<<"cfgdir", path.rel>>] # None

UrlSchemeHttp == <<"h", "t", "t", "p", ":", "/", "/">>
UrlSchemeHttps == <<"h", "t", "t", "p", "s", ":", "/", "/">>

\* The check validate makes on one enabled module.
validate_module(module, files) ==
    IF module.source.type = "local"
    THEN IF ~module.source.path.absolute
            /\ ~local_path_reachable(module.source.path, files)
         THEN Err("local path does not exist")
         ELSE Ok("valid")
    ELSE IF module.source.type = "http"
    THEN IF ~starts_with(module.source.url, UrlSchemeHttp)
            /\ ~starts_with(module.source.url, UrlSchemeHttps)
         THEN Err("invalid HTTP URL")
         ELSE Ok("valid")
    ELSE IF module.source.name = <<>> THEN Err("empty registry name")
    ELSE Ok("valid")

\* Config::validate: the cache directory can be created and every enabled
\* module passes its check.
validate(cfg, files, cache_dir_ok) ==
    IF ~cache_dir_ok THEN Err("cannot create cache directory")
    ELSE LET bad == SelectSeq(enabled_modules(cfg),
                              LAMBDA m : validate_module(m, files).kind = "err")
         IN IF bad # <<>> THEN validate_module(bad[1], files) ELSE Ok("valid")

\* What load_module is given at startup besides the module: an empty cache
\* directory and no download.
StartupLoad(module, files) ==
    load_module(module, files, EmptyMap, EmptyMap, 0, 1, FALSE,
                LoadEnv(NoResponse, "ok", "ok", 1))

\* load_all_modules: every enabled module in configuration order; a module
\* that loads is inserted under its name, one that fails is reported.
RECURSIVE load_all_modules(_, _, _)
load_all_modules(modules, files, loaded) ==
    IF modules = <<>> THEN loaded
    ELSE LET r == StartupLoad(Head(modules), files) IN
         load_all_modules(Tail(modules), files,
                          IF r.status = "ok"
                          THEN insert(loaded, Head(modules).name, r.md[1])
                          ELSE loaded)

\* What an executor operation returns, and the executor's modules after it.
ExecResult(result, modules) == [result |-> result, modules |-> modules]

\* load_module_from_metadata: read the bytes at wasm_path, compile,
\* instantiate, insert under the metadata's name.
load_module_from_metadata(modules, metadata, files, readable) ==
    IF ~readable \/ files[metadata.wasm_path] = None
    THEN ExecResult(Err("failed to read module file"), modules)
    ELSE IF ~instantiates(files[metadata.wasm_path][1])
    THEN ExecResult(Err("failed to compile or instantiate"), modules)
    ELSE ExecResult(Ok("loaded"),
             insert(modules, metadata.name,
                    LoadedModule(metadata, files[metadata.wasm_path][1])))

\* load_modules_from_manager: every entry of the loaded-set; failures are
\* reported and skipped.
RECURSIVE load_modules_from_manager(_, _, _)
load_modules_from_manager(modules, loaded, files) ==
    IF DOMAIN loaded = {} THEN modules
    ELSE LET name == CHOOSE n \in DOMAIN loaded : TRUE IN
         load_modules_from_manager(
             load_module_from_metadata(modules, loaded[name], files, TRUE).modules,
             remove(loaded, name), files)

\* unload_module
unload_module(modules, module_name) ==
    IF module_name \in DOMAIN modules
    THEN ExecResult(Ok("unloaded"), remove(modules, module_name))
    ELSE ExecResult(Err("module not loaded"), modules)

\* A reload that puts the old instance back when the fresh load fails: what
\* the unload at the head of reload_module is measured against.
reload_module_with_rollback(modules, loaded, files, module_name, readable) ==
    IF module_name \in DOMAIN loaded
    THEN LET r == load_module_from_metadata(remove(modules, module_name),
                                            loaded[module_name], files, readable)
         IN IF r.result.kind = "ok" THEN r ELSE ExecResult(r.result, modules)
    ELSE ExecResult(Err("module not found in module manager"), modules)

\* WasmExecutor::reload_module: unload, then load from the manager's metadata.
reload_module(modules, loaded, files, module_name, readable) ==
    LET unloaded == unload_module(modules, module_name).modules IN
    IF module_name \in DOMAIN loaded
    THEN load_module_from_metadata(unloaded, loaded[module_name], files, readable)
    ELSE ExecResult(Err("module not found in module manager"), unloaded)

\* ------------------------------------------------------------------------
\* Tool discovery (tool_discovery.rs)
\* ------------------------------------------------------------------------

\* ToolConfig with the fields discovery reads.
ToolConfigWith(name, function_name, description, parameters) ==
    [name |-> name, function_name |-> function_name, description |-> description,
     parameters |-> parameters, security |-> None]

\* The inner loop of load_tool_configs: tools keyed by their name.
RECURSIVE tools_by_name(_, _)
tools_by_name(tools, module_tools) ==
    IF tools = <<>> THEN module_tools
    ELSE tools_by_name(Tail(tools), insert(module_tools, Head(tools).name, Head(tools)))

\* load_tool_configs: every module of the configuration that has a tools
\* table, enabled or not, keyed by the module's name.
RECURSIVE load_tool_configs(_, _)
load_tool_configs(modules, configs) ==
    IF modules = <<>> THEN configs
    ELSE load_tool_configs(
             Tail(modules),
             IF Head(modules).tools # None
             THEN insert(configs, Head(modules).name,
                         tools_by_name(Head(modules).tools[1], EmptyMap))
             ELSE configs)

\* FuncSignature::matches_pattern
matches_pattern(signature, pattern) ==
    IF pattern \in {"i32_i32_to_i32", "ptr_len_to_i32"}
    THEN signature.params = <<"i32", "i32">> /\ signature.results = <<"i32">>
    ELSE IF pattern = "no_params_to_i32"
    THEN signature.params = <<>> /\ signature.results = <<"i32">>
    ELSE FALSE

\* The export names analyze_function treats as pointer/length functions.
PtrLenFunctionNames ==
    {FnValidateUrl, FnProcessResponse, FnPrepareHttpGet, FnPrepareFileRead,
     FnPrepareFileWrite, FnPrepareShellExec, FnPrepareRecommendMcps}

\* generate_description and the json! schemas: the auto-generated values.
AutoDescription(module_name, function_name) ==
    [auto |-> TRUE, module |-> module_name, function |-> function_name]
AutoSchema(pattern, function_name) ==
    [auto |-> TRUE, pattern |-> pattern, function |-> function_name]

\* A tool name that keeps the hyphens of the module name: what the
\* replacement is measured against.
tool_name_keeping_hyphens(module_name, function_name) ==
    IF module_name = TestModule THEN function_name
    ELSE module_name \o <<"_">> \o function_name

\* analyze_function lines 220-226: the namespaced tool name.
tool_name(module_name, function_name) ==
    IF module_name = TestModule THEN function_name
    ELSE replace(module_name, "-", "_") \o <<"_">> \o function_name

DiscoveredToolWith(name, module_name, function_name, description, schema, pattern) ==
    [name |-> name, module_name |-> module_name, function_name |-> function_name,
     description |-> description, schema |-> schema, pattern |-> pattern]

\* analyze_function that classifies by the signature alone: what the list of
\* pointer/length names is measured against.
analyze_function_by_signature(configs, module_name, function_name, signature) ==
    LET pattern ==
          IF matches_pattern(signature, "i32_i32_to_i32") THEN "i32_i32_to_i32"
          ELSE IF matches_pattern(signature, "no_params_to_i32")
          THEN "no_params_to_i32"
          ELSE "unsupported"
    IN
    IF starts_with(function_name, <<"_">>) THEN None
    ELSE IF pattern = "unsupported" THEN None
    ELSE Some(DiscoveredToolWith(
                  tool_name(module_name, function_name), module_name, function_name,
                  AutoDescription(module_name, function_name),
                  AutoSchema(pattern, function_name), pattern))

\* analyze_function: None for an export that is skipped.
analyze_function(configs, module_name, function_name, signature) ==
    LET pattern ==
          IF function_name \in PtrLenFunctionNames
             /\ matches_pattern(signature, "ptr_len_to_i32")
          THEN "ptr_len_to_i32"
          ELSE IF matches_pattern(signature, "i32_i32_to_i32") THEN "i32_i32_to_i32"
          ELSE IF matches_pattern(signature, "no_params_to_i32")
          THEN "no_params_to_i32"
          ELSE "unsupported"
        description == AutoDescription(module_name, function_name)
        schema == AutoSchema(pattern, function_name)
        module_tools == get(configs, module_name)
        tool_config == IF module_tools = None THEN None
                       ELSE get(module_tools[1], function_name)
    IN
    IF starts_with(function_name, <<"_">>) THEN None
    ELSE IF pattern = "unsupported" THEN None
    ELSE Some(DiscoveredToolWith(
                  tool_name(module_name, function_name), module_name, function_name,
                  IF tool_config # None /\ tool_config[1].description # None
                  THEN tool_config[1].description[1] ELSE description,
                  IF tool_config # None /\ tool_config[1].parameters # None
                  THEN tool_config[1].parameters[1] ELSE schema,
                  pattern))

\* The synthetic tool of lines 55-77.
fetch_tool(module_name) ==
    DiscoveredToolWith(NameFetch, module_name, NameFetch,
                       [auto |-> TRUE, module |-> module_name, function |-> NameFetch],
                       AutoSchema("fetch", NameFetch), "ptr_len_to_i32")

\* format!("{}::{}", module_name, function_name)
tool_key(module_name, function_name) == module_name \o <<":", ":">> \o function_name

\* The inner loop of discover_tools_from_executor over one module's functions.
RECURSIVE discover_functions(_, _, _, _, _)
discover_functions(table, configs, modules, module_name, functions) ==
    IF functions = <<>> THEN table
    ELSE LET f == Head(functions)
             signature == get_function_signature(modules, module_name, f)
             tool == IF signature.kind = "ok"
                     THEN analyze_function(configs, module_name, f, signature.value)
                     ELSE None
         IN discover_functions(
                IF tool # None THEN insert(table, tool_key(module_name, f), tool[1])
                ELSE table,
                configs, modules, module_name, Tail(functions))

has_fetch_pair(functions) ==
    /\ \E i \in DOMAIN functions : functions[i] = FnValidateUrl
    /\ \E i \in DOMAIN functions : functions[i] = FnProcessResponse

\* discover_tools_from_executor: the modules in the order the HashMap yields
\* them.
RECURSIVE discover_tools_from_executor(_, _, _, _)
discover_tools_from_executor(table, configs, modules, order) ==
    IF order = <<>> THEN table
    ELSE LET m == Head(order)
             functions == get_all_functions(modules)[m]
             with_fetch == IF has_fetch_pair(functions)
                           THEN insert(table, NameFetch, fetch_tool(m))
                           ELSE table
         IN discover_tools_from_executor(
                discover_functions(with_fetch, configs, modules, m, functions),
                configs, modules, Tail(order))

\* The orders a HashMap may yield its keys in.
IterationOrders(map) ==
    {order \in [1..Cardinality(DOMAIN map) -> DOMAIN map] :
       \A i, j \in DOMAIN order : i # j => order[i] # order[j]}

\* get_mcp_tools_schema: one entry per value of the table.
RECURSIVE get_mcp_tools_schema(_)
get_mcp_tools_schema(table) ==
    IF DOMAIN table = {} THEN <<>>
    ELSE LET key == CHOOSE k \in DOMAIN table : TRUE IN
         <<[name |-> table[key].name, description |-> table[key].description,
            inputSchema |-> table[key].schema]>>
         \o get_mcp_tools_schema(remove(table, key))

\* find_tool_by_name on the table: the entry under that key, else the entries
\* whose name it is (the first of them in iteration order is returned).
find_tool_candidates(table, name) ==
    IF name \in DOMAIN table THEN {table[name]}
    ELSE {table[k] : k \in {k \in DOMAIN table : table[k].name = name}}

\* ------------------------------------------------------------------------
\* Startup and discovery: state machine
\* ------------------------------------------------------------------------

PathA == [absolute |-> TRUE, rel |-> "a.wasm"]
PathB == [absolute |-> TRUE, rel |-> "b.wasm"]
PathC == [absolute |-> TRUE, rel |-> "c.wasm"]
PathMissing == [absolute |-> TRUE, rel |-> "missing.wasm"]

StartupPaths ==
    {<<"root", "a.wasm">>, <<"root", "b.wasm">>, <<"root", "c.wasm">>,
     <<"root", "missing.wasm">>, <<"cwd", "mod.wasm">>, <<"cfgdir", "mod.wasm">>}

\* What is on disk when the process starts.
StartupFiles ==
    { [p \in StartupPaths |->
         IF p = <<"root", "a.wasm">> THEN Some(WasmA)
         ELSE IF p = <<"root", "b.wasm">> THEN Some(WasmB)
         ELSE IF p = <<"root", "c.wasm">> THEN Some(WasmC)
         ELSE IF p = <<"cfgdir", "mod.wasm">> THEN Some(WasmA)
         ELSE None],
      [p \in StartupPaths |->
         IF p = <<"root", "a.wasm">> THEN Some(WasmA)
         ELSE IF p = <<"root", "b.wasm">> THEN Some(WasmNoInstance)
         ELSE IF p = <<"root", "c.wasm">> THEN Some(WasmC)
         ELSE IF p = <<"cwd", "mod.wasm">> THEN Some(WasmB)
         ELSE None],
      [p \in StartupPaths |->
         IF p = <<"root", "a.wasm">> THEN Some(BadMagic)
         ELSE IF p = <<"root", "b.wasm">> THEN Some(WasmB)
         ELSE None] }

CustomDescription == [auto |-> FALSE, text |-> "custom description"]
CustomParameters == [auto |-> FALSE, text |-> "custom schema"]

UrlFtpModule == <<"f", "t", "p", ":", "/", "/", "h">>

\* Configuration files the process may be started from.
StartupConfigs ==
    { \* the default configuration: the tool named after its function
      [modules |-> <<ModuleConfigWith(TestModule, LocalSource(PathA), TRUE,
             Some(<<ToolConfigWith(FnAdd, FnAdd, Some(CustomDescription), None)>>),
             None)>>],
      \* a tool exposed under a name of its own
      [modules |-> <<ModuleConfigWith(TestModule, LocalSource(PathA), TRUE,
             Some(<<ToolConfigWith(NameSum, FnAdd, Some(CustomDescription),
                                   Some(CustomParameters))>>),
             None)>>],
      \* two modules, one with a hyphen in its name
      [modules |-> <<ModuleConfig(TestModule, LocalSource(PathA), TRUE),
                     ModuleConfig(ModAB, LocalSource(PathB), TRUE)>>],
      [modules |-> <<ModuleConfig(ModA, LocalSource(PathC), TRUE),
                     ModuleConfig(ModAColonB, LocalSource(PathB), TRUE)>>],
      \* two module names that differ in a hyphen only
      [modules |-> <<ModuleConfig(ModAB, LocalSource(PathB), TRUE),
                     ModuleConfig(ModAUnderB, LocalSource(PathB), TRUE)>>],
      \* the same name twice
      [modules |-> <<ModuleConfig(ModDup, LocalSource(PathA), TRUE),
                     ModuleConfig(ModDup, LocalSource(PathB), TRUE)>>],
      \* local paths that may not be there
      [modules |-> <<ModuleConfig(TestModule, LocalSource(PathMissing), TRUE),
                     ModuleConfig(ModAB, LocalSource(PathB), TRUE)>>],
      [modules |-> <<ModuleConfig(ModA, LocalSource(RelPath), TRUE),
                     ModuleConfig(ModAB, LocalSource(PathMissing), FALSE)>>],
      \* sources validate looks at and load_module cannot serve
      [modules |-> <<ModuleConfig(ModA, RegistrySource(<<>>), TRUE)>>],
      [modules |-> <<ModuleConfig(ModA, RegistrySource(<<"r">>), TRUE),
                     ModuleConfig(TestModule, LocalSource(PathA), TRUE)>>],
      [modules |-> <<ModuleConfig(ModA, HttpSource(UrlFtpModule, None), TRUE)>>] }

StartupModuleNames == {TestModule, ModAB, ModA, ModAUnderB, ModAColonB, ModDup}

\* main: the configuration file has been read.
InitStartup ==
    /\ config = [modules |-> <<>>, ttl_hours |-> 1]
    /\ ManagerQuiescent
    /\ DispatchQuiescent
    /\ ServerQuiescent
    /\ GuestQuiescent
    /\ st_pc = "config"
    /\ st_config \in StartupConfigs
    /\ st_files \in StartupFiles
    /\ mgr_loaded = EmptyMap
    /\ exec_modules = EmptyMap
    /\ tool_configs = EmptyMap
    /\ discovered_tools = EmptyMap
    /\ exec_last = None

\* main: config.validate()?  A failure ends the process.
Validate ==
    /\ st_pc = "config"
    /\ \E cache_dir_ok \in BOOLEAN :
         st_pc' = IF validate(st_config, st_files, cache_dir_ok).kind = "ok"
                  THEN "validated" ELSE "rejected"
    /\ UNCHANGED <<st_config, st_files, mgr_loaded, exec_modules, tool_configs,
                   discovered_tools, exec_last>>
    /\ UNCHANGED <<mmVars, dispatchVars, serverVars, guestVars>>

\* WasmForgeServer::new: tool configs, load_all_modules,
\* load_modules_from_manager, discovery.
NewServer ==
    /\ st_pc = "validated"
    /\ LET loaded == load_all_modules(enabled_modules(st_config), st_files, EmptyMap)
           modules == load_modules_from_manager(EmptyMap, loaded, st_files)
           configs == load_tool_configs(st_config.modules, EmptyMap)
       IN /\ mgr_loaded' = loaded
          /\ exec_modules' = modules
          /\ tool_configs' = configs
          /\ \E order \in IterationOrders(modules) :
               discovered_tools' =
                   discover_tools_from_executor(EmptyMap, configs, modules, order)
    /\ st_pc' = "serving"
    /\ UNCHANGED <<st_config, st_files, exec_last>>
    /\ UNCHANGED <<mmVars, dispatchVars, serverVars, guestVars>>

\* An executor call that has returned: the operation, the module it was asked
\* for, whether that module was loaded when it was called, and the result.
ExecCall(op, name, modules, result) ==
    [op |-> op, name |-> name, was_loaded |-> name \in DOMAIN modules,
     result |-> result]

\* WasmExecutor::unload_module(name)
UnloadModule ==
    /\ st_pc = "serving"
    /\ \E name \in StartupModuleNames :
         LET r == unload_module(exec_modules, name) IN
         /\ exec_modules' = r.modules
         /\ exec_last' = Some(ExecCall("unload", name, exec_modules, r.result))
    /\ UNCHANGED <<st_pc, st_config, st_files, mgr_loaded, tool_configs,
                   discovered_tools>>
    /\ UNCHANGED <<mmVars, dispatchVars, serverVars, guestVars>>

\* WasmExecutor::reload_module(module_manager, name)
ReloadModule ==
    /\ st_pc = "serving"
    /\ \E name \in StartupModuleNames, readable \in BOOLEAN :
         LET r == reload_module(exec_modules, mgr_loaded, st_files, name, readable) IN
         /\ exec_modules' = r.modules
         /\ exec_last' = Some(ExecCall("reload", name, exec_modules, r.result))
    /\ UNCHANGED <<st_pc, st_config, st_files, mgr_loaded, tool_configs,
                   discovered_tools>>
    /\ UNCHANGED <<mmVars, dispatchVars, serverVars, guestVars>>

\* A module file is replaced on disk while the server runs.
FileReplaced ==
    /\ st_pc = "serving"
    /\ \E p \in {<<"root", "a.wasm">>, <<"root", "b.wasm">>},
          bytes \in {WasmA, WasmB} :
         st_files' = [st_files EXCEPT ![p] = Some(bytes)]
    /\ exec_last' = None
    /\ UNCHANGED <<st_pc, st_config, mgr_loaded, exec_modules, tool_configs,
                   discovered_tools>>
    /\ UNCHANGED <<mmVars, dispatchVars, serverVars, guestVars>>

NextStartup ==
    \/ Validate
    \/ NewServer
    \/ UnloadModule
    \/ ReloadModule
    \/ FileReplaced

SpecStartup == InitStartup /\ [][NextStartup]_vars

\* ------------------------------------------------------------------------
\* Startup and discovery: properties
\* ------------------------------------------------------------------------

\* The (module, function) pairs of the executor's modules that discovery
\* turns into a tool.
ToolPairs(modules, configs) ==
    {p \in UNION {{<<m, fn>> : fn \in QueriedNames} : m \in DOMAIN modules} :
       /\ get_function_signature(modules, p[1], p[2]).kind = "ok"
       /\ \E i \in DOMAIN get_all_functions(modules)[p[1]] :
            get_all_functions(modules)[p[1]][i] = p[2]
       /\ analyze_function(configs, p[1], p[2],
                           get_function_signature(modules, p[1], p[2]).value) # None}

ExportsFetchPair(modules) ==
    \E m \in DOMAIN modules : has_fetch_pair(get_all_functions(modules)[m])

IsSyntheticFetch(entry) ==
    entry.name = NameFetch /\ entry.inputSchema = AutoSchema("fetch", NameFetch)

ExportToolKeys == DOMAIN discovered_tools \ {NameFetch}

\* C14: the public name of a (module, function) tool is the function name
\* verbatim for the module "test-module", and otherwise the module name with
\* every hyphen replaced by an underscore, then "_", then the function name.
C14_PublicToolNaming ==
    \A k \in ExportToolKeys :
      LET t == discovered_tools[k]
          m == t.module_name
      IN IF m = TestModule THEN t.name = t.function_name
         ELSE /\ Len(t.name) = Len(m) + 1 + Len(t.function_name)
              /\ \A i \in DOMAIN m :
                   t.name[i] = (IF m[i] = "-" THEN "_" ELSE m[i])
              /\ t.name[Len(m) + 1] = "_"
              /\ SubSeq(t.name, Len(m) + 2, Len(t.name)) = t.function_name

\* C14 witness: the table holds a tool of "test-module" and a tool of a module
\* whose name has a hyphen.
C14_Witness ==
    /\ st_pc = "serving"
    /\ \E k \in ExportToolKeys : discovered_tools[k].module_name = TestModule
    /\ \E k \in ExportToolKeys :
         /\ discovered_tools[k].module_name = ModAB
         /\ discovered_tools[k].function_name = FnC

\* The ToolConfigs of the configuration: module name, ToolConfig.
ConfiguredTools ==
    UNION { IF st_config.modules[i].tools = None THEN {}
            ELSE { <<st_config.modules[i].name, st_config.modules[i].tools[1][j]>> :
                     j \in DOMAIN st_config.modules[i].tools[1] } :
            i \in DOMAIN st_config.modules }

\* C15: a discovered tool m::f carries the description and the parameters of
\* the ToolConfig of m whose function_name is f, when they are set, whatever
\* that ToolConfig's name is.
C15_ToolConfigOverride ==
    \A ct \in ConfiguredTools :
      LET key == tool_key(ct[1], ct[2].function_name) IN
      key \in DOMAIN discovered_tools
        => /\ ct[2].description # None
                => discovered_tools[key].description = ct[2].description[1]
           /\ ct[2].parameters # None
                => discovered_tools[key].schema = ct[2].parameters[1]

\* C16: when a ToolConfig exists for module m and function f, the tool m::f
\* is listed by tools/list and found by tools/call under ToolConfig.name.
C16_ToolConfigNameExposed ==
    \A ct \in ConfiguredTools :
      LET key == tool_key(ct[1], ct[2].function_name) IN
      key \in DOMAIN discovered_tools
        => /\ \E i \in DOMAIN get_mcp_tools_schema(discovered_tools) :
                get_mcp_tools_schema(discovered_tools)[i].name = ct[2].name
           /\ discovered_tools[key] \in find_tool_candidates(discovered_tools, ct[2].name)

\* C17: for every module loaded in the executor and every name f, the
\* signature lookup succeeds if and only if f is among the listed functions.
C17_SignatureIffExported ==
    \A m \in DOMAIN exec_modules :
      \A f \in QueriedNames :
        (get_function_signature(exec_modules, m, f).kind = "ok")
          <=> (\E i \in DOMAIN get_module_functions(exec_modules, m).value :
                 get_module_functions(exec_modules, m).value[i].name = f)

\* C17 witness: a loaded module with a function export and an export that is
\* not a function.
C17_Witness ==
    /\ st_pc = "serving"
    /\ TestModule \in DOMAIN exec_modules
    /\ get_function_signature(exec_modules, TestModule, FnAdd).kind = "ok"
    /\ get_function_signature(exec_modules, TestModule, ExpMemory).kind = "err"
    /\ \E i \in DOMAIN module_exports(exec_modules[TestModule].module) :
         module_exports(exec_modules[TestModule].module)[i].name = ExpMemory

\* C18: while the server runs, the discovery table is the table of the modules
\* currently loaded in the executor; no tool of an unloaded module remains.
C18_DiscoveryFollowsExecutor ==
    st_pc = "serving"
      => /\ \A k \in DOMAIN discovered_tools :
              discovered_tools[k].module_name \in DOMAIN exec_modules
         /\ \E order \in IterationOrders(exec_modules) :
              discovered_tools =
                  discover_tools_from_executor(EmptyMap, tool_configs, exec_modules,
                                               order)

\* C19: a running server has no two enabled modules of the same name, and
\* each entry of the loaded-set belongs to the one enabled module of its name.
C19_UniqueModuleNames ==
    st_pc = "serving"
      => LET enabled == enabled_modules(st_config) IN
         /\ \A i, j \in DOMAIN enabled : enabled[i].name = enabled[j].name => i = j
         /\ \A n \in DOMAIN mgr_loaded :
              Cardinality({i \in DOMAIN enabled : enabled[i].name = n}) = 1

\* Whether the file a Local source names is there.
LocalPathExists(path) ==
    IF path.absolute THEN st_files[<<"root", path.rel>>] # None
    ELSE \/ st_files[<<"cwd", path.rel>>] # None
         \/ st_files[<<"cfgdir", path.rel>>] # None

\* C20: validate fails for every configuration with an enabled Local module
\* whose path does not exist, absolute or relative.
C20_UnreachableLocalPathRejected ==
    [][(st_pc = "config" /\ st_pc' = "validated")
         => \A i \in DOMAIN enabled_modules(st_config) :
              enabled_modules(st_config)[i].source.type = "local"
                => LocalPathExists(enabled_modules(st_config)[i].source.path)]_vars

\* ------------------------------------------------------------------------
\* Host capabilities: limits (SpecDispatch)
\* ------------------------------------------------------------------------

\* The request being answered calls the tool of this guest function with the
\* string arguments the handler needs.
Calls(function_name, keys) ==
    /\ d_request # None
    /\ d_env # None
    /\ requested_function(d_request[1]) = function_name
    /\ \A k \in keys : get_str(d_request[1].params[1].arguments, k) # None

GuestAccepted == d_env[1].g = GuestReturn(1)

Succeeded == d_reply # None /\ d_reply[1].result # None /\ d_reply[1].error = None
Failed == d_reply # None /\ d_reply[1].result = None /\ d_reply[1].error # None

\* C21: once the guest has accepted the path, the read of a file the host
\* reads as text succeeds and returns the content when the content is at most
\* 1,048,576 bytes, and fails when it is 1,048,577 bytes or more; on that
\* failure the reply carries an error and no content.
C21_FileReadSizeCap ==
    (Calls("prepare_file_read", {"path"}) /\ GuestAccepted /\ d_env[1].file.kind = "ok")
      => LET content == d_env[1].file.content IN
         /\ content.len <= ReadLimit
              => Succeeded /\ d_reply[1].result[1].text = content
         /\ content.len >= ReadLimit + 1 => Failed

\* A file of exactly 1,048,576 bytes has been read and returned.
C21_Witness ==
    /\ Calls("prepare_file_read", {"path"})
    /\ GuestAccepted
    /\ d_env[1].file = File("ok", Text(ReadLimit, TRUE))
    /\ Succeeded
    /\ d_trace[Len(d_trace)] = FileRead(PathTmp)

NoFileWritten == \A i \in DOMAIN d_trace : d_trace[i].kind # "file_write"

\* C22: a file write runs the guest's path validation, then the host's size
\* check, then the write: a guest verdict other than 1 fails the request
\* whatever the size, a content above 10,485,760 bytes is rejected after the
\* guest accepted, in both cases nothing is written to the target, and a
\* successful reply states the number of bytes written, the content's length.
C22_FileWriteOrderAndCap ==
    Calls("prepare_file_write", {"path", "content"})
      => LET arguments == d_request[1].params[1].arguments
             path == get_str(arguments, "path")[1].chars
             content == get_str(arguments, "content")[1]
             g == d_env[1].g
         IN
         /\ g.kind \in {"ret", "trap"}
              => d_trace # <<>> /\ d_trace[1].kind = "guest"
                 /\ d_trace[1].function = "prepare_file_write"
                 /\ d_trace[1].input = path
         /\ \A i \in DOMAIN d_trace :
              d_trace[i].kind = "file_write"
                => /\ i = 2
                   /\ d_trace[i] = FileWrite(path, content)
                   /\ content.len <= WriteLimit
         /\ (g.kind = "ret" /\ g.value # 1)
              => /\ NoFileWritten
                 /\ Failed
                 /\ d_reply[1].error[1].message
                      = "file path rejected by WASM validation for writing"
         /\ (GuestAccepted /\ content.len > WriteLimit)
              => /\ NoFileWritten
                 /\ Failed
                 /\ d_reply[1].error[1].message = "content too large"
         /\ (GuestAccepted /\ content.len <= WriteLimit /\ d_env[1].file.kind = "ok")
              => Succeeded
         /\ Succeeded
              => /\ d_reply[1].result[1].text = content.len
                 /\ ~NoFileWritten

\* A content of 10,485,761 bytes has been rejected after the guest accepted
\* the path, and nothing was written.
C22_Witness ==
    /\ Calls("prepare_file_write", {"path", "content"})
    /\ GuestAccepted
    /\ get_str(d_request[1].params[1].arguments, "content")[1].len = WriteLimit + 1
    /\ Failed
    /\ NoFileWritten
    /\ Len(d_trace) = 1

Spawned == \E i \in DOMAIN d_trace : d_trace[i].kind = "spawn"

\* The child of the request is still running ten seconds after its spawn.
StillRunningAtDeadline ==
    LET proc == d_env[1].proc IN
    \/ proc.kind = "hangs"
    \/ proc.kind = "exited" /\ proc.exit_after > ShellTimeoutSecs

\* C23: a spawned command that has not exited 10 seconds after its spawn is
\* killed and the request is answered with a timeout error; no request awaits
\* its child for more than 10 seconds, and the kill of the child precedes the
\* reply of the request that timed out.
C23_SubprocessTimeout ==
    (Calls("prepare_shell_exec", {"command"}) /\ Spawned)
      => LET n == Len(d_trace)
             spawn == CHOOSE i \in DOMAIN d_trace : d_trace[i].kind = "spawn"
             program == d_trace[spawn].program
         IN
         /\ \A i \in DOMAIN d_trace :
              d_trace[i].kind = "waited" => d_trace[i].secs <= ShellTimeoutSecs
         /\ StillRunningAtDeadline
              => /\ d_trace[n] = Kill(program)
                 /\ d_trace[n - 1] = Waited(program, ShellTimeoutSecs)
                 /\ spawn = n - 2
                 /\ Failed
                 /\ d_reply[1].error[1].message = "command timed out"
         /\ (Failed /\ d_reply[1].error[1].message = "command timed out")
              => d_trace[n] = Kill(program)

\* A child that would have exited after 11 seconds has been killed at 10.
C23_Witness ==
    /\ Calls("prepare_shell_exec", {"command"})
    /\ Spawned
    /\ d_env[1].proc.kind = "exited"
    /\ d_env[1].proc.exit_after = ShellTimeoutSecs + 1
    /\ d_trace[Len(d_trace)].kind = "kill"
    /\ Failed

\* The child of the request was spawned and exited before the deadline.
CommandCompleted ==
    /\ Calls("prepare_shell_exec", {"command"})
    /\ Spawned
    /\ d_env[1].proc.kind = "exited"
    /\ d_env[1].proc.exit_after <= ShellTimeoutSecs

\* The text is a prefix of the stream it was made from, of at most 4096 bytes.
IsBoundedPrefix(text, stream) ==
    /\ text.len <= MaxOutputLen
    /\ text.len <= stream.len
    /\ text.replaced = 0

\* C24: for every command that completes, whatever its output, the reply
\* exists and carries the exit code and the two streams, each cut to at most
\* 4096 bytes and each a prefix of the stream captured from the child.
C24_OutputTruncation ==
    CommandCompleted
      => /\ Succeeded
         /\ d_reply[1].result[1].text.exit_code = d_env[1].proc.exit_code
         /\ IsBoundedPrefix(d_reply[1].result[1].text.stdout, d_env[1].proc.stdout)
         /\ IsBoundedPrefix(d_reply[1].result[1].text.stderr, d_env[1].proc.stderr)

\* ------------------------------------------------------------------------
\* The guest of the repository (test-module/src/lib.rs) and the capabilities
\* called with it as their validator
\* ------------------------------------------------------------------------

\* char::is_ascii_alphanumeric
AsciiAlphanumeric ==
    {"a", "b", "c", "d", "e", "f", "g", "h", "i", "j", "k", "l", "m", "n",
     "o", "p", "q", "r", "s", "t", "u", "v", "w", "x", "y", "z", "A", "B",
     "C", "D", "E", "F", "G", "H", "I", "J", "K", "L", "M", "N", "O", "P",
     "Q", "R", "S", "T", "U", "V", "W", "X", "Y", "Z", "0", "1", "2", "3",
     "4", "5", "6", "7", "8", "9"}

\* char::is_ascii_whitespace
AsciiWhitespace == {" ", "\t", "\n", "\f", "\r"}

UpperCase ==
    <<"A", "B", "C", "D", "E", "F", "G", "H", "I", "J", "K", "L", "M", "N",
      "O", "P", "Q", "R", "S", "T", "U", "V", "W", "X", "Y", "Z">>
LowerCase ==
    <<"a", "b", "c", "d", "e", "f", "g", "h", "i", "j", "k", "l", "m", "n",
      "o", "p", "q", "r", "s", "t", "u", "v", "w", "x", "y", "z">>

\* cmd_len > 200, prepare_shell_exec line 155
GuestMaxCommandLen == 200

\* task_len > 500, prepare_recommend_mcps line 185
GuestMaxTaskLen == 500

\* The characters prepare_shell_exec denies, and the ones it permits besides
\* letters and digits.
\* stands for the character U+0060, which a string of this module cannot hold
Backquote == "U+0060"
ShellMetacharacters == {"|", ">", "<", ";", "&", Backquote, "\n"}
ShellPunctuation == {" ", ".", "/", "-", "_"}

\* The validator the written contract describes: one that also refuses a
\* program outside the default allow-list.
prepare_shell_exec_with_allow_list(cmd) ==
    IF Len(cmd) = 0 \/ Len(cmd) > GuestMaxCommandLen THEN 0
    ELSE IF \E i \in DOMAIN cmd : cmd[i] \in ShellMetacharacters THEN 0
    ELSE IF \E i \in DOMAIN cmd : cmd[i] \notin AsciiAlphanumeric \cup ShellPunctuation
    THEN 0
    ELSE IF split_whitespace(cmd) = <<>> THEN 0
    ELSE IF \A i \in DOMAIN DefaultAllowedCommands :
              DefaultAllowedCommands[i] # split_whitespace(cmd)[1]
    THEN 0
    ELSE 1

\* prepare_shell_exec: syntax only.
prepare_shell_exec(cmd) ==
    IF Len(cmd) = 0 \/ Len(cmd) > GuestMaxCommandLen THEN 0
    ELSE IF \E i \in DOMAIN cmd : cmd[i] \in ShellMetacharacters THEN 0
    ELSE IF \E i \in DOMAIN cmd : cmd[i] \notin AsciiAlphanumeric \cup ShellPunctuation
    THEN 0
    ELSE 1

TaskPunctuation == {".", ",", ":", ";", "!", "?", "-", "_", "/", "(", ")", "\"", "'"}

\* prepare_recommend_mcps: length and charset.
prepare_recommend_mcps(task) ==
    IF Len(task) = 0 \/ Len(task) > GuestMaxTaskLen THEN 0
    ELSE IF \E i \in DOMAIN task :
              task[i] \notin AsciiAlphanumeric \cup AsciiWhitespace \cup TaskPunctuation
    THEN 0
    ELSE 1

\* ------------------------------------------------------------------------
\* Recommendations (main.rs: handle_tool_call, the prepare_recommend_mcps arm)
\* ------------------------------------------------------------------------

\* str::to_lowercase, on ASCII
to_lowercase(s) ==
    [i \in DOMAIN s |->
       IF \E k \in DOMAIN UpperCase : UpperCase[k] = s[i]
       THEN LowerCase[CHOOSE k \in DOMAIN UpperCase : UpperCase[k] = s[i]]
       ELSE s[i]]

\* str::contains
contains(s, w) ==
    \E i \in 0..(Len(s) - Len(w)) : SubSeq(s, i + 1, i + Len(w)) = w

contains_any(query, words) == \E i \in DOMAIN words : contains(query, words[i])

WebKeywords ==
    <<<<"d", "o", "w", "n", "l", "o", "a", "d">>, <<"f", "e", "t", "c", "h">>,
      <<"h", "t", "t", "p">>, <<"h", "t", "t", "p", "s">>, <<"u", "r", "l">>,
      <<"g", "e", "t">>, <<"r", "e", "t", "r", "i", "e", "v", "e">>, <<"r",
      "e", "q", "u", "e", "s", "t">>>>
FileKeywords ==
    <<<<"s", "a", "v", "e">>, <<"f", "i", "l", "e">>, <<"w", "r", "i", "t",
      "e">>, <<"r", "e", "a", "d">>, <<"o", "p", "e", "n">>, <<"l", "o", "a",
      "d">>, <<"s", "t", "o", "r", "e">>>>
ShellKeywords ==
    <<<<"s", "h", "e", "l", "l">>, <<"b", "a", "s", "h">>, <<"c", "o", "m",
      "m", "a", "n", "d">>, <<"e", "x", "e", "c", "u", "t", "e">>, <<"r", "u",
      "n">>, <<"l", "s">>, <<"e", "c", "h", "o">>, <<"c", "a", "t">>, <<"w",
      "c">>, <<"u", "n", "a", "m", "e">>, <<"t", "e", "r", "m", "i", "n", "a",
      "l">>>>

has_fn(tools, fname) == \E k \in DOMAIN tools : tools[k].function_name = fname

collect_methods(tools, fnames) ==
    { [name |-> tools[k].name, inputSchema |-> tools[k].schema] :
        k \in {k \in DOMAIN tools : tools[k].function_name \in fnames} }

Category(name, methods) == [name |-> name, methods |-> methods]

web_browser(tools) == Category("web_browser", collect_methods(tools, {FnPrepareHttpGet}))
file_ops(tools) ==
    Category("file_ops", collect_methods(tools, {FnPrepareFileRead, FnPrepareFileWrite}))
shell_executor(tools) ==
    Category("shell_executor", collect_methods(tools, {FnPrepareShellExec}))

has_file_fn(tools) == has_fn(tools, FnPrepareFileRead) \/ has_fn(tools, FnPrepareFileWrite)

\* Every category whose function is discovered, whatever the task says: what
\* the keyword scoring is measured against.
recommend_all_discovered(query, tools) ==
    (IF has_fn(tools, FnPrepareHttpGet) THEN <<web_browser(tools)>> ELSE <<>>)
    \o (IF has_file_fn(tools) THEN <<file_ops(tools)>> ELSE <<>>)
    \o (IF has_fn(tools, FnPrepareShellExec) THEN <<shell_executor(tools)>> ELSE <<>>)

\* lines 280-344: the categories pushed, in order.
recommend_categories(query, tools) ==
    LET scored ==
          (IF has_fn(tools, FnPrepareHttpGet) /\ contains_any(query, WebKeywords)
           THEN <<web_browser(tools)>> ELSE <<>>)
          \o (IF has_file_fn(tools) /\ contains_any(query, FileKeywords)
              THEN <<file_ops(tools)>> ELSE <<>>)
          \o (IF has_fn(tools, FnPrepareShellExec) /\ contains_any(query, ShellKeywords)
              THEN <<shell_executor(tools)>> ELSE <<>>)
        fallback ==
          (IF has_fn(tools, FnPrepareHttpGet) THEN <<web_browser(tools)>> ELSE <<>>)
          \o (IF has_file_fn(tools) THEN <<file_ops(tools)>> ELSE <<>>)
          \o (IF has_fn(tools, FnPrepareShellExec)
              THEN <<shell_executor(tools)>> ELSE <<>>)
    IN
    IF scored = <<>> THEN fallback ELSE scored

\* The arm of handle_tool_call for prepare_recommend_mcps, lines 263-346.
recommend_mcps(tool, task, tools, g) ==
    LET v == call_function_ptr_len_to_i32(tool.module_name, tool.function_name,
                                          task, g)
    IN
    IF v.result.kind # "ok" THEN v
    ELSE IF v.result.value # 1
    THEN Did(Err("task rejected by WASM validation"), v.events)
    ELSE Did(Ok(recommend_categories(to_lowercase(task), tools)), v.events)

\* ------------------------------------------------------------------------
\* Calls with the repository's guest as validator: state machine
\* ------------------------------------------------------------------------

TaskDownload ==
    <<"d", "o", "w", "n", "l", "o", "a", "d", " ", "a", " ", "f", "i", "l",
      "e", " ", "f", "r", "o", "m", " ", "a", " ", "U", "R", "L">>
TaskRunLs == <<"r", "u", "n", " ", "l", "s">>
TaskHello == <<"h", "e", "l", "l", "o">>
TaskGet == <<"G", "E", "T", " ", "i", "t">>
TaskReload == <<"r", "e", "l", "o", "a", "d">>
TaskSave == <<"S", "a", "v", "e", " ", "i", "t">>
TaskAngle == <<"a", "<", "b">>

SampleTasks ==
    {TaskDownload, TaskRunLs, TaskHello, TaskGet, TaskReload, TaskSave, TaskAngle, <<>>}

\* The tool of prepare_recommend_mcps, and the tables discovery may have built
\* around it.
RecommendTool ==
    analyze_function(EmptyMap, TestModule, FnPrepareRecommendMcps, SigI32I32ToI32)[1]

Preparers == {FnPrepareHttpGet, FnPrepareFileRead, FnPrepareFileWrite, FnPrepareShellExec}

ToolTable(functions) ==
    [k \in {tool_key(TestModule, f) : f \in functions \cup {FnPrepareRecommendMcps}} |->
       LET f == CHOOSE f \in functions \cup {FnPrepareRecommendMcps} :
                  tool_key(TestModule, f) = k
       IN analyze_function(EmptyMap, TestModule, f, SigI32I32ToI32)[1]]

CmdRmRf == <<"r", "m", " ", "-", "r", "f", " ", "/">>
CmdEchoHello == <<"e", "c", "h", "o", " ", "h", "e", "l", "l", "o">>
CmdEchoPipe ==
    <<"e", "c", "h", "o", " ", "a", " ", "|", " ", "e", "c", "h", "o", " ",
      "b">>
CmdTooLong == [i \in 1..(GuestMaxCommandLen + 1) |-> "a"]

GuestCommands ==
    {CmdRmRf, CmdEchoHello, CmdEchoPipe, CmdLs, CmdEchoPadded, CmdTooLong, <<>>}

AllowLists == {DefaultAllowedCommands, <<Rm>>}

GuestProcs ==
    { Proc("exited", 0, 0, Bytes(1, TRUE, 0), Bytes(0, TRUE, 0)),
      Proc("hangs", 0, 0, Bytes(0, TRUE, 0), Bytes(0, TRUE, 0)) }

\* Sizes of a linear memory, in bytes: whole pages of 64 KiB.
MemorySizes == {0, 65536, 131072}

DataLens == {0, 1, 64512, 64513, 130048, 130049}

Instances ==
    {None, Some(Instance(None, {FnValidateUrl}))}
      \cup { Some(Instance(Some(size), functions)) :
               size \in MemorySizes, functions \in {{FnValidateUrl}, {FnAdd}} }

InitGuest ==
    /\ config = [modules |-> <<>>, ttl_hours |-> 1]
    /\ ManagerQuiescent
    /\ DispatchQuiescent
    /\ ServerQuiescent
    /\ StartQuiescent
    /\ GuestQuiescent

\* tools/call prepare_recommend_mcps, answered from the discovery table.
RecommendMcps ==
    /\ x_call = None
    /\ \E task \in SampleTasks, functions \in SUBSET Preparers :
         /\ x_call' = Some([op |-> "recommend", task |-> task,
                            tools |-> ToolTable(functions)])
         /\ x_result' = Some(recommend_mcps(RecommendTool, task, ToolTable(functions),
                                            GuestReturn(prepare_recommend_mcps(task))))
    /\ UNCHANGED <<mmVars, dispatchVars, serverVars, startVars>>

\* execute_shell_with_validation with prepare_shell_exec of the guest.
ShellExec ==
    /\ x_call = None
    /\ \E command \in GuestCommands, allowed \in AllowLists, proc \in GuestProcs :
         /\ x_call' = Some([op |-> "shell", command |-> command,
                            allowed_commands |-> allowed, proc |-> proc])
         /\ x_result' = Some(execute_shell_with_validation(
                                 TestModule, command, allowed,
                                 GuestReturn(prepare_shell_exec(command)), proc))
    /\ UNCHANGED <<mmVars, dispatchVars, serverVars, startVars>>

\* call_function_ptr_len_to_i32 on an instance.
CallPtrLen ==
    /\ x_call = None
    /\ \E instance \in Instances, len \in DataLens,
          behaviour \in {GuestReturn(1), GuestTrap} :
         /\ x_call' = Some([op |-> "ptr_len", instance |-> instance,
                            function_name |-> FnValidateUrl, data_len |-> len])
         /\ x_result' = Some(call_function_ptr_len_to_i32(
                                 TestModule, FnValidateUrl, [len |-> len],
                                 guest_call_outcome(instance, FnValidateUrl, len,
                                                    behaviour)))
    /\ UNCHANGED <<mmVars, dispatchVars, serverVars, startVars>>

\* The call returns to its caller.
CallReturns ==
    /\ x_call # None
    /\ x_call' = None
    /\ x_result' = None
    /\ UNCHANGED <<mmVars, dispatchVars, serverVars, startVars>>

NextGuest ==
    \/ RecommendMcps
    \/ ShellExec
    \/ CallPtrLen
    \/ CallReturns

SpecGuest == InitGuest /\ [][NextGuest]_vars

\* ------------------------------------------------------------------------
\* Calls with the repository's guest as validator: properties
\* ------------------------------------------------------------------------

Called(op) == x_call # None /\ x_call[1].op = op

\* The guest was called first and returned 1.
ValidatorReturnedOne ==
    /\ x_result[1].events # <<>>
    /\ x_result[1].events[1].kind = "guest"
    /\ x_result[1].events[1].ret = Some(1)

\* The functions that define a category, and its keywords.
CategoryNames == {"web_browser", "file_ops", "shell_executor"}
DefiningFunctions(category) ==
    IF category = "web_browser" THEN {FnPrepareHttpGet}
    ELSE IF category = "file_ops" THEN {FnPrepareFileRead, FnPrepareFileWrite}
    ELSE {FnPrepareShellExec}
KeywordsOf(category) ==
    IF category = "web_browser" THEN WebKeywords
    ELSE IF category = "file_ops" THEN FileKeywords
    ELSE ShellKeywords

IsDiscovered(category) ==
    \E k \in DOMAIN x_call[1].tools :
      x_call[1].tools[k].function_name \in DefiningFunctions(category)

MentionsKeyword(category) ==
    \E i \in DOMAIN KeywordsOf(category) :
      contains(to_lowercase(x_call[1].task), KeywordsOf(category)[i])

RecommendedNames ==
    {x_result[1].result.value[i].name : i \in DOMAIN x_result[1].result.value}

\* C25: for a task the guest accepts, the reply holds a category exactly when
\* one of its defining functions is discovered and the lowercased task
\* contains one of its keywords; when no category qualifies that way, it holds
\* every category one of whose defining functions is discovered.  With all
\* preparers discovered, "download a file from a URL" yields web_browser and
\* file_ops and nothing else.
C25_RecommendationCategories ==
    (Called("recommend") /\ ValidatorReturnedOne)
      => LET scored == {c \in CategoryNames : IsDiscovered(c) /\ MentionsKeyword(c)}
         IN
         /\ x_result[1].result.kind = "ok"
         /\ Len(x_result[1].result.value) = Cardinality(RecommendedNames)
         /\ scored # {} => RecommendedNames = scored
         /\ scored = {} => RecommendedNames = {c \in CategoryNames : IsDiscovered(c)}
         /\ (x_call[1].task = TaskDownload /\ x_call[1].tools = ToolTable(Preparers))
              => RecommendedNames = {"web_browser", "file_ops"}

\* The example of the claim has been answered.
C25_Witness ==
    /\ Called("recommend")
    /\ ValidatorReturnedOne
    /\ x_call[1].task = TaskDownload
    /\ x_call[1].tools = ToolTable(Preparers)
    /\ RecommendedNames = {"web_browser", "file_ops"}

\* The request of the shell policy example: "rm -rf /" under the default
\* allow-list.
RmUnderDefaults ==
    /\ Called("shell")
    /\ x_call[1].command = CmdRmRf
    /\ x_call[1].allowed_commands = DefaultAllowedCommands

NothingSpawned ==
    \A i \in DOMAIN x_result[1].events : x_result[1].events[i].kind # "spawn"

\* C26 as stated: the guest validator returns a value other than 1 for
\* "rm -rf /", the request fails at the guest stage and no process is spawned.
C26_RmRejectedByGuest ==
    RmUnderDefaults
      => /\ ~ValidatorReturnedOne
         /\ x_result[1].result = Err("command rejected by WASM validation")
         /\ NothingSpawned

\* C26: with the default allow-list, "rm -rf /" passes the guest validator
\* prepare_shell_exec (it returns 1: no metacharacter, only permitted
\* characters) and is refused by the host's allow-list check, rm not being in
\* the list; the request fails and no process is spawned.
C26_RmRejectedByAllowList ==
    RmUnderDefaults
      => /\ ValidatorReturnedOne
         /\ x_result[1].events[1].function = "prepare_shell_exec"
         /\ x_result[1].events[1].input = CmdRmRf
         /\ x_result[1].result = Err("command is not allowed")
         /\ NothingSpawned

\* "rm -rf /" has been refused under the default allow-list.
C26_Witness ==
    /\ RmUnderDefaults
    /\ x_result[1].result.kind = "err"
    /\ Len(x_result[1].events) = 1

GuestInvoked ==
    \E i \in DOMAIN x_result[1].events : x_result[1].events[i].kind = "guest"

\* C28: call_function_ptr_len_to_i32 on a loaded module fails without invoking
\* the guest function when the instance exports no memory or when 1024 plus
\* the input's length exceeds the memory's size, the memory being left at its
\* size; otherwise the input lies at offset 1024 and an exported function is
\* invoked once, on that input.
C28_FixedOffsetWrite ==
    (Called("ptr_len") /\ x_call[1].instance # None)
      => LET instance == x_call[1].instance[1]
             len == x_call[1].data_len
             fits == instance.memory # None /\ DataPtr + len <= instance.memory[1]
         IN
         /\ ~fits => x_result[1].result.kind = "err" /\ ~GuestInvoked
         /\ instance.memory = None => x_result[1].result = Err("no memory export")
         /\ (instance.memory # None /\ ~fits)
              => x_result[1].result = Err("failed to write data")
         /\ (fits /\ FnValidateUrl \in instance.functions)
              => /\ Len(x_result[1].events) = 1
                 /\ x_result[1].events[1].kind = "guest"
                 /\ x_result[1].events[1].function = FnValidateUrl
                 /\ x_result[1].events[1].input = [len |-> len]

\* An input one byte too long for a memory of one page has been refused.
C28_Witness ==
    /\ Called("ptr_len")
    /\ x_call[1].instance = Some(Instance(Some(65536), {FnValidateUrl}))
    /\ x_call[1].data_len = 64513
    /\ x_result[1].result.kind = "err"
    /\ ~GuestInvoked

\* ------------------------------------------------------------------------
\* Export classification (SpecStartup)
\* ------------------------------------------------------------------------

\* The function exports of a loaded module.
FunctionExports(m) ==
    LET exports == module_exports(exec_modules[m].module) IN
    {exports[i] : i \in {i \in DOMAIN exports : exports[i].kind = "func"}}

\* The pattern the classification rules give an export, "none" for no tool.
ClassifiedAs(name, sig) ==
    IF name[1] = "_" THEN "none"
    ELSE IF name \in {FnValidateUrl, FnProcessResponse, FnPrepareHttpGet,
                      FnPrepareFileRead, FnPrepareFileWrite, FnPrepareShellExec,
                      FnPrepareRecommendMcps}
            /\ sig = SigI32I32ToI32
    THEN "ptr_len_to_i32"
    ELSE IF sig = SigI32I32ToI32 THEN "i32_i32_to_i32"
    ELSE IF sig = SigToI32 THEN "no_params_to_i32"
    ELSE "none"

\* C27: discovery skips an export whose name begins with "_"; otherwise an
\* export of type (i32, i32) -> i32 is ptr_len_to_i32 when its name is one of
\* the seven validator names and i32_i32_to_i32 when it is not, an export of
\* type () -> i32 is no_params_to_i32, and an export of any other type yields
\* no tool.
C27_ExportClassification ==
    \A m \in DOMAIN exec_modules :
      \A e \in FunctionExports(m) :
        LET tool == analyze_function(tool_configs, m, e.name, e.sig) IN
        IF ClassifiedAs(e.name, e.sig) = "none" THEN tool = None
        ELSE /\ tool # None
             /\ tool[1].pattern = ClassifiedAs(e.name, e.sig)
             /\ tool[1].function_name = e.name
             /\ tool[1].module_name = m

\* The server runs with a table that holds a tool of each pattern, one of them
\* a validator name exported with type () -> i32, and no tool for "_init" or
\* for the export of type (i64) -> i64.
C27_Witness ==
    /\ st_pc = "serving"
    /\ \E k \in DOMAIN discovered_tools :
         /\ discovered_tools[k].function_name = FnPrepareHttpGet
         /\ discovered_tools[k].pattern = "no_params_to_i32"
    /\ \E k \in DOMAIN discovered_tools :
         /\ discovered_tools[k].function_name = FnValidateUrl
         /\ discovered_tools[k].pattern = "ptr_len_to_i32"
    /\ \E k \in DOMAIN discovered_tools :
         /\ discovered_tools[k].function_name = FnAdd
         /\ discovered_tools[k].pattern = "i32_i32_to_i32"
    /\ \E m \in DOMAIN exec_modules :
         \E e \in FunctionExports(m) : e.name = FnInit
    /\ \A k \in DOMAIN discovered_tools :
         discovered_tools[k].function_name \notin {FnInit, FnWide}

\* ------------------------------------------------------------------------
\* Module manager: reload (SpecManager)
\* ------------------------------------------------------------------------

\* C29: reload_module(name) on success replaces the loaded-set's entry for
\* name by the new metadata and leaves every other entry as it was; when the
\* configuration has no module of that name or load_module fails, the error
\* is returned and the loaded-set, the entry for name included, is unchanged.
\* Nothing is changed before load_module has returned.
C29_ReloadFrame ==
    [][ /\ (mm_pc = "serving" /\ mm_pc' \in {"reload_got", "panicked"})
             => loaded_modules' = loaded_modules
        /\ (mm_pc = "reload_got" /\ mm_pc' = "serving")
             => LET r == mm_result[1] IN
                /\ r.op = "reload"
                /\ r.status \in {"ok", "err"}
                /\ find_module(config, r.name) = None => r.status = "err"
                /\ r.status = "ok"
                     => /\ r.md # None
                        /\ r.md[1].name = r.name
                        /\ loaded_modules'[r.name] = r.md
                        /\ \A n \in ModuleNames \ {r.name} :
                             loaded_modules'[n] = loaded_modules[n]
                /\ r.status = "err" => loaded_modules' = loaded_modules ]_vars

\* A reload of a loaded module has failed and is about to return its error.
C29_Witness ==
    /\ mm_pc = "reload_got"
    /\ mm_result[1].status = "err"
    /\ mm_result[1].cfg # None
    /\ loaded_modules[mm_result[1].name] # None

\* ------------------------------------------------------------------------
\* Handler selection (SpecDispatch)
\* ------------------------------------------------------------------------

\* The request being answered is a tools/call that names a tool and carries
\* arguments.
IsToolsCall ==
    /\ d_request # None
    /\ d_env # None
    /\ d_request[1].method = "tools/call"
    /\ d_request[1].params # None
    /\ {"name", "arguments"} \subseteq DOMAIN d_request[1].params[1]

\* The capability a pointer/length tool selects: the host I/O it may do, the
\* guest function it calls first and the argument it hands to it.
HostIoOf(tool) ==
    IF tool.pattern # "ptr_len_to_i32" THEN "none"
    ELSE IF tool.function_name = "prepare_http_get" THEN "http_get"
    ELSE IF tool.function_name = "prepare_file_read" THEN "file_read"
    ELSE IF tool.function_name = "prepare_file_write" THEN "file_write"
    ELSE IF tool.function_name = "prepare_shell_exec" THEN "spawn"
    ELSE IF tool.name = "fetch" THEN "http_get"
    ELSE "none"

FirstGuestFunctionOf(tool) ==
    IF tool.pattern = "ptr_len_to_i32" /\ tool.name = "fetch" THEN "validate_url"
    ELSE tool.function_name

ArgumentOf(tool) ==
    IF tool.function_name \in {"validate_url", "prepare_http_get"} THEN "url"
    ELSE IF tool.function_name \in {"prepare_file_read", "prepare_file_write"}
    THEN "path"
    ELSE IF tool.function_name = "prepare_shell_exec" THEN "command"
    ELSE IF tool.function_name = "prepare_recommend_mcps" THEN "task"
    ELSE IF tool.name = "fetch" THEN "url"
    ELSE "data"

\* The call is direct: the reply is the status the guest returned.
IsDirectCall(tool) ==
    \/ tool.pattern \in {"i32_i32_to_i32", "no_params_to_i32"}
    \/ /\ tool.pattern = "ptr_len_to_i32"
       /\ HostIoOf(tool) = "none"
       /\ tool.function_name # "prepare_recommend_mcps"

\* C30: the handler of a tools/call is selected by the tool's pattern, function
\* name and public name: i32_i32_to_i32 and no_params_to_i32 tools are direct
\* guest calls; of the ptr_len_to_i32 tools validate_url is a direct call that
\* returns the raw status, each prepare_* function selects its capability, the
\* public name fetch selects the legacy fetch, and any other tool is a direct
\* call on the argument "data"; a name that is not in the discovery table
\* yields an RPC error without any guest call.
C30_HandlerSelection ==
    IsToolsCall
      => LET found == find_tool_by_name(d_request[1].params[1].name)
             arguments == d_request[1].params[1].arguments
             g == d_env[1].g
         IN
         IF found = None
         THEN Failed /\ d_trace = <<>> /\ d_reply[1].error[1].message = "unknown tool"
         ELSE
           LET tool == found[1]
               given ==
                 IF tool.pattern = "i32_i32_to_i32"
                 THEN get_i64(arguments, "a") # None /\ get_i64(arguments, "b") # None
                 ELSE IF tool.pattern = "no_params_to_i32" THEN TRUE
                 ELSE /\ get_str(arguments, ArgumentOf(tool)) # None
                      /\ tool.function_name = "prepare_file_write"
                           => get_str(arguments, "content") # None
               input ==
                 IF tool.pattern = "i32_i32_to_i32"
                 THEN <<as_i32(get_i64(arguments, "a")[1]),
                        as_i32(get_i64(arguments, "b")[1])>>
                 ELSE IF tool.pattern = "no_params_to_i32" THEN <<>>
                 ELSE get_str(arguments, ArgumentOf(tool))[1].chars
           IN
           /\ \A i \in DOMAIN d_trace :
                IsHostIo(d_trace[i]) => d_trace[i].kind = HostIoOf(tool)
           /\ ~given => d_trace = <<>> /\ Failed
           /\ (given /\ g.kind \in {"ret", "trap"})
                => /\ d_trace # <<>>
                   /\ d_trace[1].kind = "guest"
                   /\ d_trace[1].module = tool.module_name
                   /\ d_trace[1].function = FirstGuestFunctionOf(tool)
                   /\ d_trace[1].input = input
           /\ (given /\ g.kind = "ret" /\ IsDirectCall(tool))
                => /\ Len(d_trace) = 1
                   /\ Succeeded
                   /\ d_reply[1].result[1].text = g.value

\* The legacy fetch has been selected by the public name fetch: validate_url
\* was called first and the network was reached.
C30_Witness ==
    /\ IsToolsCall
    /\ d_request[1].params[1].name = "fetch"
    /\ Len(d_trace) >= 2
    /\ d_trace[1].kind = "guest"
    /\ d_trace[1].function = "validate_url"
    /\ d_trace[2].kind = "http_get"

\* ------------------------------------------------------------------------
\* Legacy fetch (SpecDispatch)
\* ------------------------------------------------------------------------

\* The i-th thing the handler did is a call of this guest function.
IsGuestCallOf(i, function_name) ==
    /\ i \in DOMAIN d_trace
    /\ d_trace[i].kind = "guest"
    /\ d_trace[i].function = function_name

\* C31: the legacy fetch does at most three things, in this order: the guest's
\* validate_url on the URL, the host's HTTP GET of that URL, the guest's
\* process_response on the body received. The GET is issued only after
\* validate_url returned 1, the reply carries the body only after
\* process_response returned 200, and every other value returned by
\* process_response gives an error reply.
C31_LegacyFetchProtocol ==
    Calls("fetch", {"url"})
      => LET url == get_str(d_request[1].params[1].arguments, "url")[1].chars
             body == d_env[1].net.body
         IN
         /\ Len(d_trace) <= 3
         /\ \A i \in DOMAIN d_trace :
              /\ i = 1 => IsGuestCallOf(1, "validate_url") /\ d_trace[1].input = url
              /\ i = 2 => d_trace[2] = HttpGet(url) /\ d_trace[1].ret = Some(1)
              /\ i = 3 => /\ IsGuestCallOf(3, "process_response")
                          /\ d_trace[3].input = body
         /\ Succeeded
              => /\ Len(d_trace) = 3
                 /\ d_trace[3].ret = Some(HttpStatusOk)
                 /\ d_reply[1].result[1].text.content = body
         /\ (Len(d_trace) = 3 /\ d_trace[3].ret \notin {None, Some(HttpStatusOk)})
              => /\ Failed
                 /\ d_reply[1].error[1].message = "WASM processing failed"

\* validate_url returned 1, the body was fetched, process_response returned 2
\* and the reply is an error.
C31_Witness ==
    /\ Calls("fetch", {"url"})
    /\ Len(d_trace) = 3
    /\ d_trace[1].ret = Some(1)
    /\ d_trace[2].kind = "http_get"
    /\ d_trace[3].ret = Some(2)
    /\ Failed

\* ------------------------------------------------------------------------
\* Module manager: disabled modules (SpecManager)
\* ------------------------------------------------------------------------

\* The configuration holds a module of this name with enabled = false.
DisabledInConfig(name) ==
    \E i \in DOMAIN config.modules :
      config.modules[i].name = name /\ ~config.modules[i].enabled

\* C32: whatever load_all and reload(name) calls have been made, the
\* loaded-set holds no module that the configuration disables.
C32_DisabledNeverLoaded ==
    \A name \in ModuleNames : loaded_modules[name] # None => ~DisabledInConfig(name)

\* ------------------------------------------------------------------------
\* Executor: reload (SpecStartup)
\* ------------------------------------------------------------------------

\* This step is a reload_module(name) call of the executor that returns an
\* error.
ReloadFails(name) ==
    /\ st_pc = "serving"
    /\ exec_last' # None
    /\ exec_last'[1].op = "reload"
    /\ exec_last'[1].name = name
    /\ exec_last'[1].result.kind = "err"

\* Every module the executor holds is whole: compiled and instantiated from
\* the bytes it holds, and filed under the name of its metadata.
FullyLoaded(modules) ==
    \A m \in DOMAIN modules :
      /\ instantiates(modules[m].module)
      /\ modules[m].metadata.name = m

\* C33: a reload_module(m) of the executor that returns an error, because the
\* module manager has no metadata for m or because reading, compiling or
\* instantiating m fails, leaves the executor without m, whether or not m was
\* loaded before the call, and leaves every other module as it was; and every
\* module the executor holds is whole.
C33_ReloadRemovesOnError ==
    [][ /\ \A name \in StartupModuleNames :
             ReloadFails(name)
               => /\ name \notin DOMAIN exec_modules'
                  /\ \A other \in StartupModuleNames \ {name} :
                       get(exec_modules', other) = get(exec_modules, other)
        /\ FullyLoaded(exec_modules') ]_vars

\* A module that was loaded has been reloaded, the reload failed, and the
\* executor no longer holds it while it still holds another module.
C33_Witness ==
    /\ exec_last # None
    /\ exec_last[1].op = "reload"
    /\ exec_last[1].was_loaded
    /\ exec_last[1].result.kind = "err"
    /\ exec_last[1].name \notin DOMAIN exec_modules
    /\ exec_last[1].name \in DOMAIN mgr_loaded
    /\ DOMAIN exec_modules # {}

\* ------------------------------------------------------------------------
\* Tool lookup (SpecStartup)
\* ------------------------------------------------------------------------

\* The table discovery builds from the executor's modules when the HashMap
\* yields them in this order.
TableBuiltIn(order) ==
    discover_tools_from_executor(EmptyMap, tool_configs, exec_modules, order)

\* The names a client may call a tool of this table by: its keys and the
\* public names of its entries.
LookupNames(table) == DOMAIN table \cup {table[k].name : k \in DOMAIN table}

\* C34: no two entries of the discovery table have the same public name, and
\* for the modules the executor holds find_tool_by_name has one tool to
\* return for every name, the same in whatever order the modules were
\* discovered.
C34_ToolLookupUnambiguous ==
    st_pc = "serving"
      => /\ \A k1, k2 \in DOMAIN discovered_tools :
              k1 # k2 => discovered_tools[k1].name # discovered_tools[k2].name
         /\ \A o1, o2 \in IterationOrders(exec_modules) :
              \A name \in LookupNames(TableBuiltIn(o1)) :
                /\ Cardinality(find_tool_candidates(TableBuiltIn(o1), name)) = 1
                /\ find_tool_candidates(TableBuiltIn(o2), name)
                     = find_tool_candidates(TableBuiltIn(o1), name)

\* ------------------------------------------------------------------------
\* Advertised schemas and the arguments the dispatcher reads (SpecDispatch)
\* ------------------------------------------------------------------------

\* The "required" list of the schema discovery generates for a tool
\* (tool_discovery.rs lines 61-67 for fetch, 109-200 for the exports), and the
\* JSON type its properties are given.
schema_required(tool) ==
    IF tool.name = "fetch" /\ tool.function_name = "fetch" THEN {"url"}
    ELSE IF tool.pattern = "ptr_len_to_i32"
    THEN IF tool.function_name = "prepare_http_get" THEN {"url"}
         ELSE IF tool.function_name = "prepare_file_read" THEN {"path"}
         ELSE IF tool.function_name = "prepare_file_write" THEN {"path", "content"}
         ELSE IF tool.function_name = "prepare_shell_exec" THEN {"command"}
         ELSE IF tool.function_name = "prepare_recommend_mcps" THEN {"task"}
         ELSE {"data"}
    ELSE IF tool.pattern = "i32_i32_to_i32" THEN {"a", "b"}
    ELSE {}

schema_property_type(tool) ==
    IF tool.pattern = "i32_i32_to_i32" THEN "number" ELSE "string"

\* The arguments supply every required property of the tool's schema with a
\* value of the advertised type.
ConformsToSchema(arguments, tool) ==
    \A k \in schema_required(tool) :
      k \in DOMAIN arguments /\ arguments[k].type = schema_property_type(tool)

\* The errors handle_tool_call raises for an argument it does not find.
MissingParameterErrors ==
    { "missing or invalid parameter 'a'", "missing or invalid parameter 'b'",
      "missing or invalid parameter 'url'", "missing or invalid parameter 'data'",
      "missing URL parameter", "missing path parameter", "missing content parameter",
      "missing command parameter", "missing task parameter" }

\* C35: a call of a discovered tool whose arguments supply every property its
\* auto-generated schema requires is never rejected for a missing parameter.
C35_SchemaAndDispatchAgree ==
    (IsToolsCall /\ find_tool_by_name(d_request[1].params[1].name) # None)
      => LET tool == find_tool_by_name(d_request[1].params[1].name)[1]
             arguments == d_request[1].params[1].arguments
         IN ConformsToSchema(arguments, tool)
              => ~(Failed /\ d_reply[1].error[1].message \in MissingParameterErrors)

\* ------------------------------------------------------------------------
\* Request loops: the lock and the reply (SpecServer)
\* ------------------------------------------------------------------------

\* C36: on TCP the connection whose reply is being written still owns the
\* server state and no other connection is processing a request, so every
\* reply is written before any request of another connection starts being
\* processed: between the start of a request and its reply the log holds
\* nothing of another connection.
C36_LockHeldThroughWrite ==
    s_mode = "tcp"
      => /\ \A c \in Conns :
              s_pc[c] = "writing"
                => /\ s_lock = Some(c)
                   /\ \A d \in Conns \ {c} : s_pc[d] \notin {"handling", "writing"}
         /\ \A k \in DOMAIN s_log :
              s_log[k].what = "reply"
                => \E i \in 1..(k - 1) :
                     /\ s_log[i].what = "start"
                     /\ s_log[i].n = s_log[k].n
                     /\ \A j \in i..k : s_log[j].conn = s_log[k].conn

\* One connection's reply is being written while the other, whose request has
\* been read, is kept waiting for the lock.
C36_Witness ==
    /\ s_mode = "tcp"
    /\ \E c, d \in Conns :
         /\ c # d
         /\ s_pc[c] = "writing"
         /\ s_lock = Some(c)
         /\ s_pc[d] = "waiting"
         /\ s_cur[d] # None

\* ------------------------------------------------------------------------
\* Integer arguments (SpecDispatch)
\* ------------------------------------------------------------------------

\* The request being answered calls a tool of the pattern i32_i32_to_i32.
CallsIntegerTool ==
    /\ IsToolsCall
    /\ find_tool_by_name(d_request[1].params[1].name) # None
    /\ find_tool_by_name(d_request[1].params[1].name)[1].pattern = "i32_i32_to_i32"

\* The argument is given and is a JSON integer (of any size); it is one that
\* an i64 holds.
IsJsonInteger(arguments, key) ==
    /\ key \in DOMAIN arguments
    /\ arguments[key].type = "number"
    /\ arguments[key].integer

FitsI64(arguments, key) ==
    /\ IsJsonInteger(arguments, key)
    /\ -(I64Modulus \div 2) <= arguments[key].n
    /\ arguments[key].n <= (I64Modulus - 1) \div 2

\* x is n reduced modulo 2^32 to the two's complement range.
IsReducedToI32(x, n) ==
    /\ -(I32Modulus \div 2) <= x
    /\ x <= (I32Modulus - 1) \div 2
    /\ (x - n) % I32Modulus = 0

RejectedForParameter ==
    Failed /\ d_trace = <<>> /\ d_reply[1].error[1].message \in MissingParameterErrors

\* The guest, when it runs, is handed a and b reduced modulo 2^32.
PassedReduced(arguments) ==
    /\ ~RejectedForParameter
    /\ d_env[1].g.kind \in {"ret", "trap"}
         => /\ Len(d_trace) = 1
            /\ d_trace[1].kind = "guest"
            /\ IsReducedToI32(d_trace[1].input[1], arguments.a.n)
            /\ IsReducedToI32(d_trace[1].input[2], arguments.b.n)

\* C37 as stated: every JSON integer a and b, whatever its size, is passed to
\* the guest reduced modulo 2^32, and a missing or non-integer a or b yields
\* an error without any guest call.
C37_IntegerArgumentsAsStated ==
    CallsIntegerTool
      => LET arguments == d_request[1].params[1].arguments IN
         IF IsJsonInteger(arguments, "a") /\ IsJsonInteger(arguments, "b")
         THEN PassedReduced(arguments)
         ELSE RejectedForParameter

\* C37: a and b that are JSON integers an i64 holds are never rejected, also
\* outside the i32 range: the guest is handed each reduced modulo 2^32 to the
\* two's complement range.  A missing a or b, one that is not an integer, and
\* an integer that an i64 does not hold yield an error without any guest call.
C37_IntegerArguments ==
    CallsIntegerTool
      => LET arguments == d_request[1].params[1].arguments IN
         IF FitsI64(arguments, "a") /\ FitsI64(arguments, "b")
         THEN PassedReduced(arguments)
         ELSE RejectedForParameter

\* An a above the i32 range has been handed to the guest as a negative number.
C37_Witness ==
    /\ CallsIntegerTool
    /\ FitsI64(d_request[1].params[1].arguments, "a")
    /\ FitsI64(d_request[1].params[1].arguments, "b")
    /\ d_request[1].params[1].arguments.a.n > (I32Modulus - 1) \div 2
    /\ d_trace # <<>>
    /\ d_trace[1].input[1] < 0
    /\ Succeeded

\* ------------------------------------------------------------------------
\* Module manager: the TTL decision (SpecManager)
\* ------------------------------------------------------------------------

\* C38: for every cached metadata, clock value and ttl_hours, is_cache_valid
\* answers, without overflowing, valid exactly when cached_at <= now and
\* now - cached_at < ttl_hours * 3600; metadata cached later than now and
\* ttl_hours = 0 are both not valid.
C38_TtlDecisionArithmetic ==
    \A id \in CacheIds :
      LET cached == load_cached_metadata(cache_json, id) IN
      cached # None
        => is_cache_valid(cached[1], now, config.ttl_hours, overflow_checks)
             = IF /\ cached[1].cached_at <= now
                  /\ now - cached[1].cached_at < config.ttl_hours * SecondsPerHour
               THEN "valid" ELSE "stale"

\* ------------------------------------------------------------------------
\* Module manager: the cache directory after a failed load (SpecManager)
\* ------------------------------------------------------------------------

\* This step is a load_module call on an Http source that returns an error.
HttpLoadFails ==
    /\ mm_result = None
    /\ mm_result' # None
    /\ mm_result'[1].cfg # None
    /\ mm_result'[1].cfg[1].source.type = "http"
    /\ mm_result'[1].status = "err"

\* C39: a load of an Http module that fails, whatever the cause (transport
\* error, status, body, checksum mismatch, Wasm header, a failed write of the
\* bytes or of the metadata), leaves every file of the cache directory as it
\* was before the call.
C39_FailedLoadKeepsCache ==
    [][ HttpLoadFails => /\ cache_wasm' = cache_wasm
                         /\ cache_json' = cache_json ]_vars

\* ------------------------------------------------------------------------
\* Module manager: local loads (SpecManager)
\* ------------------------------------------------------------------------

\* This step is a load_module call on a Local source.
LocalLoadReturns ==
    /\ mm_result = None
    /\ mm_result' # None
    /\ mm_result'[1].cfg # None
    /\ mm_result'[1].cfg[1].source.type = "local"

\* C40: a load of a Local module leaves the cache directory as it was and
\* issues no GET; whatever the cache holds, the TTL and the clock, it succeeds
\* exactly when the file at the resolved path is there and is a Wasm module,
\* and its checksum and size_bytes are those of that file, so that they equal
\* those of an earlier load of the same unchanged file.
C40_LocalLoadsBypassCache ==
    [][ LocalLoadReturns
          => LET r == mm_result'[1]
                 path == resolve_local_path(r.cfg[1].source.path, local_files)
                 file == local_files[path]
             IN
             /\ cache_wasm' = cache_wasm
             /\ cache_json' = cache_json
             /\ r.gets = 0
             /\ r.status \in {"ok", "err"}
             /\ r.status = "ok"
                  <=> (file # None /\ validate_wasm_module(file[1]) = "ok")
             /\ r.status = "ok"
                  => /\ r.md[1].checksum = calculate_checksum(file[1])
                     /\ r.md[1].size_bytes = Len(file[1])
                     /\ r.md[1].wasm_path = path
                     /\ loaded_modules[r.name] # None
                          => /\ r.md[1].checksum = loaded_modules[r.name][1].checksum
                             /\ r.md[1].size_bytes
                                  = loaded_modules[r.name][1].size_bytes ]_vars

\* A local module loaded at startup has been loaded again by a reload within
\* the TTL of the first load: the file was read anew (the metadata has a fresh
\* id) and nothing was put in the cache directory.
C40_Witness ==
    /\ mm_pc = "reload_got"
    /\ mm_result[1].cfg # None
    /\ mm_result[1].cfg[1].source.type = "local"
    /\ mm_result[1].status = "ok"
    /\ loaded_modules[mm_result[1].name] # None
    /\ loaded_modules[mm_result[1].name][1].id # mm_result[1].md[1].id
    /\ config.ttl_hours = 1
    /\ now = loaded_modules[mm_result[1].name][1].cached_at
    /\ \A id \in CacheIds : cache_wasm[id] = None

====
